---------------------------- MODULE Spec2Model ----------------------------
(***************************************************************************)
(* A model of the docx-core document model, its fluent builders, its       *)
(* canonical writer (BuildXML::build_to) and its tolerant reader (the      *)
(* serde Deserialize impls driven by quick-xml).                           *)
(*                                                                         *)
(* Entities are records with a "kind" field.  Option<T> is a sequence of   *)
(* length at most one: <<>> is None and <<x>> is Some(x).  Markup is a     *)
(* sequence of writer events (the bytes of the output); the reader works   *)
(* on the element tree the tokenizer produces from those events.           *)
(***************************************************************************)
EXTENDS Integers, Sequences, FiniteSets, TLC

VARIABLES
    sdt,      \* the StructuredDataTag under construction
    cell,     \* the TableCell under construction
    table,    \* Option<Table>: the Table under construction
    doc,      \* the Document under construction / being written
    calls,    \* number of builder calls made so far
    phase,    \* position of the session
    subject,  \* Option<entity>: the entity handed to the writer
    stream,   \* the writer's state after build_to (output events, status)
    back,     \* Result<entity> read back from stream
    stream2,  \* writer state after writing `back` again
    markup,   \* reader input: Option<element> (<<>> = no root element)
    result,   \* reader output: Result<entity>
    failAt,    \* number of the sink write that fails (0 = none)
    ids,      \* the process-wide identifier counters
    threads   \* per thread: its job, position, built entities and sink

vars == <<sdt, cell, table, doc, calls, phase, subject, stream, back, stream2,
          markup, result, failAt, ids, threads>>

-----------------------------------------------------------------------------
(* Bounds *)

MaxCalls == 3      \* builder calls per session
MaxKids == 3       \* child elements of a reader input element
MaxFail == 12      \* largest numbered sink write that may be made to fail
MaxNum == 3        \* largest number an id attribute is parsed to
MaxJob == 2        \* entities a thread builds and writes
MaxParts == 2      \* children of a header or footer

-----------------------------------------------------------------------------
(* Option and Result *)

None == <<>>
Some(x) == <<x>>
IsSome(o) == Len(o) = 1
Unwrap(o) == o[1]

Ok(x) == [ok |-> TRUE, val |-> <<x>>]
Err == [ok |-> FALSE, val |-> <<>>]

RECURSIVE Flatten(_)
\* Iterator::filter_map(..).collect() over already mapped Option values
Flatten(opts) ==
    IF opts = <<>> THEN <<>> ELSE Head(opts) \o Flatten(Tail(opts))

RECURSIVE AnyTrue(_)
AnyTrue(bs) == IF bs = <<>> THEN FALSE ELSE Head(bs) \/ AnyTrue(Tail(bs))

-----------------------------------------------------------------------------
(* Numeric text: a number in markup is a sequence of characters *)

Digits == <<"0", "1", "2", "3", "4", "5", "6", "7", "8", "9">>
IsDigit(c) == \E d \in 1..10 : Digits[d] = c
DigitVal(c) == (CHOOSE d \in 1..10 : Digits[d] = c) - 1

\* format!("{}", n)
RECURSIVE Format(_)
Format(n) ==
    IF n < 0 THEN <<"-">> \o Format(-n)
    ELSE IF n < 10 THEN <<Digits[n + 1]>>
    ELSE Format(n \div 10) \o <<Digits[(n % 10) + 1]>>

\* str::trim
RECURSIVE TrimStart(_), TrimEnd(_)
TrimStart(cs) == IF cs # <<>> /\ Head(cs) = " " THEN TrimStart(Tail(cs)) ELSE cs
TrimEnd(cs) ==
    IF cs # <<>> /\ cs[Len(cs)] = " " THEN TrimEnd(SubSeq(cs, 1, Len(cs) - 1)) ELSE cs
Trim(cs) == TrimEnd(TrimStart(cs))

\* str::strip_suffix("pt")
strip_suffix_pt(cs) ==
    IF Len(cs) >= 2 /\ cs[Len(cs) - 1] = "p" /\ cs[Len(cs)] = "t"
    THEN Some(SubSeq(cs, 1, Len(cs) - 2)) ELSE None

RECURSIVE DigitsValue(_)
DigitsValue(cs) ==
    IF cs = <<>> THEN 0 ELSE 10 * DigitsValue(SubSeq(cs, 1, Len(cs) - 1)) + DigitVal(cs[Len(cs)])
RECURSIVE Pow10(_)
Pow10(k) == IF k = 0 THEN 1 ELSE 10 * Pow10(k - 1)
AllDigits(cs) == \A i \in DOMAIN cs : IsDigit(cs[i])

\* char::to_ascii_lowercase
Upper == <<"A", "B", "C", "D", "E", "F", "G", "H", "I", "J", "K", "L", "M",
           "N", "O", "P", "Q", "R", "S", "T", "U", "V", "W", "X", "Y", "Z">>
Lower == <<"a", "b", "c", "d", "e", "f", "g", "h", "i", "j", "k", "l", "m",
           "n", "o", "p", "q", "r", "s", "t", "u", "v", "w", "x", "y", "z">>
to_ascii_lowercase(cs) ==
    [i \in DOMAIN cs |->
        IF \E k \in DOMAIN Upper : Upper[k] = cs[i]
        THEN Lower[CHOOSE k \in DOMAIN Upper : Upper[k] = cs[i]] ELSE cs[i]]

\* A float: a finite fraction num / den, an infinity (num is its sign) or
\* not-a-number.
Finite(num, den) == [kind |-> "finite", num |-> num, den |-> den]

\* the decimal part of a float literal: digits with at most one point and
\* at least one digit
Mantissa(body) ==
    LET dots == {i \in DOMAIN body : body[i] = "."}
        whole == IF dots = {} THEN body
                 ELSE SubSeq(body, 1, (CHOOSE i \in dots : TRUE) - 1)
        frac == IF dots = {} THEN <<>>
                ELSE SubSeq(body, (CHOOSE i \in dots : TRUE) + 1, Len(body))
    IN IF Cardinality(dots) <= 1 /\ AllDigits(whole) /\ AllDigits(frac)
          /\ Len(whole) + Len(frac) > 0
       THEN Some(Finite(DigitsValue(whole \o frac), Pow10(Len(frac))))
       ELSE None

\* the exponent of a float literal: an optional sign and digits
Exponent(cs) ==
    LET signed == cs # <<>> /\ Head(cs) \in {"+", "-"}
        body == IF signed THEN Tail(cs) ELSE cs
    IN IF body # <<>> /\ AllDigits(body)
       THEN Some(IF signed /\ Head(cs) = "-" THEN -DigitsValue(body) ELSE DigitsValue(body))
       ELSE None

\* str::parse::<f64>() and str::parse::<f32>(): an optional sign, then a
\* decimal literal with an optional exponent, or one of the names inf,
\* infinity and nan in any case.  No surrounding white space is accepted.
parse_f64(cs) ==
    LET signed == cs # <<>> /\ Head(cs) \in {"+", "-"}
        sign == IF signed /\ Head(cs) = "-" THEN -1 ELSE 1
        body == IF signed THEN Tail(cs) ELSE cs
        es == {i \in DOMAIN body : body[i] \in {"e", "E"}}
        e1 == IF es = {} THEN Len(body) + 1 ELSE CHOOSE i \in es : \A j \in es : i <= j
        m == Mantissa(SubSeq(body, 1, e1 - 1))
        x == IF es = {} THEN Some(0) ELSE Exponent(SubSeq(body, e1 + 1, Len(body)))
    IN IF to_ascii_lowercase(body) \in {<<"i", "n", "f">>,
                                        <<"i", "n", "f", "i", "n", "i", "t", "y">>}
       THEN Some([kind |-> "inf", num |-> sign, den |-> 1])
       ELSE IF to_ascii_lowercase(body) = <<"n", "a", "n">>
       THEN Some([kind |-> "nan", num |-> 0, den |-> 1])
       ELSE IF IsSome(m) /\ IsSome(x)
       THEN Some(Finite(sign * Unwrap(m).num * (IF Unwrap(x) > 0 THEN Pow10(Unwrap(x)) ELSE 1),
                        Unwrap(m).den * (IF Unwrap(x) < 0 THEN Pow10(-Unwrap(x)) ELSE 1)))
       ELSE None

\* f * 20.0
times20(f) == IF f.kind = "finite" THEN Finite(f.num * 20, f.den) ELSE f

I32_MAX == 2147483647
I32_MIN == (-I32_MAX) - 1
\* usize::MAX is beyond the integers of the model: their largest stands for it
USIZE_MAX == I32_MAX

Truncate(f) == IF f.num >= 0 THEN f.num \div f.den ELSE -((-f.num) \div f.den)

\* `x as i32` of a float: truncation toward zero, saturating at the i32
\* range; not-a-number becomes 0
as_i32(f) ==
    IF f.kind = "nan" THEN 0
    ELSE IF f.kind = "inf" THEN (IF f.num > 0 THEN I32_MAX ELSE I32_MIN)
    ELSE IF Truncate(f) > I32_MAX THEN I32_MAX
    ELSE IF Truncate(f) < I32_MIN THEN I32_MIN ELSE Truncate(f)

\* `x as usize` of a float: as above, with 0 as the lowest value
as_usize(f) ==
    IF f.kind = "nan" THEN 0
    ELSE IF f.kind = "inf" THEN (IF f.num > 0 THEN USIZE_MAX ELSE 0)
    ELSE IF Truncate(f) < 0 THEN 0 ELSE Truncate(f)

\* .ok().map(|f| f as usize) and .ok().map(|f| f as i32) of a parsed float
float_as_usize(f) == IF IsSome(f) THEN Some(as_usize(Unwrap(f))) ELSE None
float_as_i32(f) == IF IsSome(f) THEN Some(as_i32(Unwrap(f))) ELSE None
\* Option::or
or_else(first, second) == IF IsSome(first) THEN first ELSE second

\* Option::unwrap_or
OrDefault(opt, default) == IF IsSome(opt) THEN Unwrap(opt) ELSE default

\* str::parse::<u32>(): an optional plus sign and digits only
parse_u32(cs) ==
    LET body == IF cs # <<>> /\ Head(cs) = "+" THEN Tail(cs) ELSE cs
    IN IF body # <<>> /\ AllDigits(body)
       THEN Some(DigitsValue(body)) ELSE None

-----------------------------------------------------------------------------
(* Entity model and builders *)

\* Paragraph: a paragraph references a numbering definition or not, and owns
\* an ordered child sequence.
Paragraph_new == [kind |-> "Paragraph", children |-> <<>>, has_numbering |-> FALSE]
Paragraph_numbering(p) == [p EXCEPT !.has_numbering = TRUE]
Paragraph_add_run(p, r) == [p EXCEPT !.children = Append(@, r)]

\* RunProperty::new(): no field is set
RunProperty_new ==
    [style |-> None, size |-> None, color |-> None, highlight |-> None,
     spacing |-> None, underline |-> None, bold |-> None, italic |-> None,
     strike |-> None, dstrike |-> None, vanish |-> None, spec_vanish |-> None,
     fonts |-> None]
\* the toggles: bold() / disable_bold() and the like store an on/off value
RunProperty_toggle(rp, field, on) == [rp EXCEPT ![field] = Some(on)]
RunProperty_set(rp, field, v) == [rp EXCEPT ![field] = Some(v)]

Run_new == [kind |-> "Run", run_property |-> RunProperty_new, children |-> <<>>]
Run_add_text(r, text) ==
    [r EXCEPT !.children = Append(@, [kind |-> "Text", text |-> text])]
Run_add_tab(r) == [r EXCEPT !.children = Append(@, [kind |-> "Tab"])]
Run_bold(r) == [r EXCEPT !.run_property = RunProperty_toggle(@, "bold", TRUE)]
Run_style(r, style_id) == [r EXCEPT !.run_property = RunProperty_set(@, "style", style_id)]
\* the run's properties are replaced by new ones that hold the reference style
Run_add_footnote_reference(r, id) ==
    [r EXCEPT !.run_property = RunProperty_set(RunProperty_new, "style", "FootnoteReference"),
              !.children = Append(@, [kind |-> "FootnoteReference", id |-> id])]
\* Pic::new_with_dimensions: an inline picture; floating() anchors it
Pic_new ==
    [kind |-> "Pic", position_type |-> "Inline", allow_overlap |-> FALSE,
     position_h |-> [kind |-> "Offset", val |-> "0"],
     position_v |-> [kind |-> "Offset", val |-> "0"]]
Pic_floating(p) == [p EXCEPT !.position_type = "Anchor"]
Pic_overlapping(p) == [p EXCEPT !.allow_overlap = TRUE]
TextBox_new == [kind |-> "TextBox"]
Drawing_new == [kind |-> "Drawing", data |-> None]
Drawing_pic(d, pic) == [d EXCEPT !.data = Some(pic)]
Drawing_text_box(d, t) == [d EXCEPT !.data = Some(t)]
Run_add_image(r, pic) ==
    [r EXCEPT !.children =
        Append(@, [kind |-> "Drawing", drawing |-> Drawing_pic(Drawing_new, pic)])]
Run_add_drawing(r, d) ==
    [r EXCEPT !.children = Append(@, [kind |-> "Drawing", drawing |-> d])]
Run_add_instr_text(r, i) ==
    [r EXCEPT !.children = Append(@, [kind |-> "InstrText", instr |-> i])]

BookmarkStart_new(id, name) == [kind |-> "BookmarkStart", id |-> id, name |-> name]
BookmarkEnd_new(id) == [kind |-> "BookmarkEnd", id |-> id]
\* CommentRangeStart::new(Comment::new(id)) and CommentRangeEnd::new(id)
CommentRangeStart_new(id) == [kind |-> "CommentStart", id |-> id]
CommentRangeEnd_new(id) == [kind |-> "CommentEnd", id |-> id]

\* TableProperty::new() carries the default borders, without_borders() none.
TableProperty_new == [borders |-> TRUE]
TableProperty_without_borders == [borders |-> FALSE]

PageSize_new == [w |-> 11906, h |-> 16838]
PageMargin_new ==
    [top |-> 1985, right |-> 1701, bottom |-> 1701, left |-> 1701,
     header |-> 851, footer |-> 992, gutter |-> 0]
DocGrid_with_empty == [grid_type |-> "lines", line_pitch |-> None, char_space |-> None]
PageNumType_new == [start |-> None, chap_style |-> None]
HeaderReference_new(t, id) == [header_type |-> t, id |-> id]
FooterReference_new(t, id) == [footer_type |-> t, id |-> id]

SectionProperty_new ==
    [kind |-> "SectionProperty", page_size |-> PageSize_new,
     page_margin |-> PageMargin_new, columns |-> 1, space |-> 425,
     title_pg |-> FALSE, text_direction |-> "lrTb", doc_grid |-> None,
     header_reference |-> None, first_header_reference |-> None,
     even_header_reference |-> None, footer_reference |-> None,
     first_footer_reference |-> None, even_footer_reference |-> None,
     section_type |-> None, page_num_type |-> None]
SectionProperty_page_size(sp, size) == [sp EXCEPT !.page_size = size]
SectionProperty_page_margin(sp, margin) == [sp EXCEPT !.page_margin = margin]
SectionProperty_doc_grid(sp, g) == [sp EXCEPT !.doc_grid = Some(g)]
SectionProperty_text_direction(sp, d) == [sp EXCEPT !.text_direction = d]
SectionProperty_title_pg(sp) == [sp EXCEPT !.title_pg = TRUE]
SectionProperty_header(sp, rid) ==
    [sp EXCEPT !.header_reference = Some(HeaderReference_new("default", rid))]
SectionProperty_first_header(sp, rid) ==
    [sp EXCEPT !.first_header_reference = Some(HeaderReference_new("first", rid)),
               !.title_pg = TRUE]
SectionProperty_even_header(sp, rid) ==
    [sp EXCEPT !.even_header_reference = Some(HeaderReference_new("even", rid))]
SectionProperty_footer(sp, rid) ==
    [sp EXCEPT !.footer_reference = Some(FooterReference_new("default", rid))]
SectionProperty_first_footer(sp, rid) ==
    [sp EXCEPT !.first_footer_reference = Some(FooterReference_new("first", rid)),
               !.title_pg = TRUE]
SectionProperty_even_footer(sp, rid) ==
    [sp EXCEPT !.even_footer_reference = Some(FooterReference_new("even", rid))]
SectionProperty_page_num_type(sp, h) == [sp EXCEPT !.page_num_type = Some(h)]
\* the public section_type field
SectionProperty_section_type(sp, t) == [sp EXCEPT !.section_type = Some(t)]

StructuredDataTag_new ==
    [kind |-> "StructuredDataTag", children |-> <<>>,
     property |-> [alias |-> None], has_numbering |-> FALSE]
StructuredDataTag_add_run(s, r) == [s EXCEPT !.children = Append(@, r)]
StructuredDataTag_add_paragraph(s, p) ==
    [s EXCEPT !.has_numbering = IF p.has_numbering THEN TRUE ELSE @,
              !.children = Append(@, p)]
StructuredDataTag_add_table(s, t) ==
    [s EXCEPT !.has_numbering = IF t.has_numbering THEN TRUE ELSE @,
              !.children = Append(@, t)]
StructuredDataTag_alias(s, v) == [s EXCEPT !.property.alias = Some(v)]

TableCell_new == [kind |-> "TableCell", children |-> <<>>, has_numbering |-> FALSE]
TableCell_add_paragraph(c, p) ==
    [c EXCEPT !.has_numbering = IF p.has_numbering THEN TRUE ELSE @,
              !.children = Append(@, p)]
TableCell_add_structured_data_tag(c, t) == [c EXCEPT !.children = Append(@, t)]
TableCell_add_table(c, t) ==
    [c EXCEPT !.has_numbering = IF t.has_numbering THEN TRUE ELSE @,
              !.children = Append(@, t)]

TableRow_new(cells) ==
    [kind |-> "TableRow", cells |-> cells,
     has_numbering |-> AnyTrue([i \in DOMAIN cells |-> cells[i].has_numbering])]

Table_new(rows) ==
    [kind |-> "Table", rows |-> rows, property |-> TableProperty_new,
     has_numbering |-> AnyTrue([i \in DOMAIN rows |-> rows[i].has_numbering])]
Table_without_borders(rows) ==
    [kind |-> "Table", rows |-> rows, property |-> TableProperty_without_borders,
     has_numbering |-> AnyTrue([i \in DOMAIN rows |-> rows[i].has_numbering])]
Table_add_row(t, row) == [t EXCEPT !.rows = Append(@, row)]

Document_new ==
    [kind |-> "Document", children |-> <<>>,
     section_property |-> SectionProperty_new, has_numbering |-> FALSE]
\* the paragraph put in front of the earlier children
Document_add_paragraph_Prepend(d, p) ==
    [d EXCEPT !.has_numbering = IF p.has_numbering THEN TRUE ELSE @,
              !.children = <<p>> \o @]
Document_add_paragraph(d, p) ==
    [d EXCEPT !.has_numbering = IF p.has_numbering THEN TRUE ELSE @,
              !.children = Append(@, p)]
Document_add_table(d, t) ==
    [d EXCEPT !.has_numbering = IF t.has_numbering THEN TRUE ELSE @,
              !.children = Append(@, t)]
Document_add_bookmark_start(d, id, name) ==
    [d EXCEPT !.children = Append(@, BookmarkStart_new(id, name))]
Document_add_bookmark_end(d, id) ==
    [d EXCEPT !.children = Append(@, BookmarkEnd_new(id))]
Document_add_structured_data_tag(d, t) ==
    [d EXCEPT !.has_numbering = IF t.has_numbering THEN TRUE ELSE @,
              !.children = Append(@, t)]
Document_columns(d, col) == [d EXCEPT !.section_property.columns = col]
Document_title_pg(d) ==
    [d EXCEPT !.section_property = SectionProperty_title_pg(@)]

\* The children of a container, whatever the field is called.
RECURSIVE SubtreeHasNumbering(_)
Kids(e) ==
    IF e.kind = "Table" THEN e.rows
    ELSE IF e.kind = "TableRow" THEN e.cells
    ELSE IF e.kind \in {"TableCell", "StructuredDataTag", "Document", "Paragraph",
                         "Header", "Footer"}
    THEN e.children
    ELSE <<>>

\* true iff some paragraph in the subtree of e references a numbering
SubtreeHasNumbering(e) ==
    IF e.kind = "Paragraph" THEN e.has_numbering
    ELSE \E i \in DOMAIN Kids(e) : SubtreeHasNumbering(Kids(e)[i])

-----------------------------------------------------------------------------
(* Canonical writer: XMLBuilder over a fallible sink *)

\* One writer event is one write to the sink.
OpenEv(tag, attrs) == [t |-> "open", tag |-> tag, attrs |-> attrs]
CloseEv == [t |-> "close", tag |-> "", attrs |-> <<>>]
TextEv(text) == [t |-> "text", tag |-> text, attrs |-> <<>>]
DeclEv == [t |-> "decl", tag |-> "xml", attrs |-> <<>>]

\* XMLBuilder::from(stream) over a sink whose write number failAt fails
\* (failAt = 0: the sink never fails).
NewStream(fail) == [out |-> <<>>, n |-> 0, failAt |-> fail, status |-> "ok"]

\* One emission step.  A step applied to a builder that already failed is
\* not performed: this is the `?` that follows the previous step.
Write(b, ev) ==
    IF b.status # "ok" THEN b
    ELSE IF b.n + 1 = b.failAt THEN [b EXCEPT !.n = @ + 1, !.status = "err"]
    ELSE [b EXCEPT !.n = @ + 1, !.out = Append(@, ev)]

open(b, tag, attrs) == Write(b, OpenEv(tag, attrs))
close(b) == Write(b, CloseEv)
closed(b, tag, attrs) == close(open(b, tag, attrs))
text(b, txt) == Write(b, TextEv(txt))
declaration(b) == Write(b, DeclEv)
\* todo!() / unreachable!(): the write panics
Panic(b) == IF b.status # "ok" THEN b ELSE [b EXCEPT !.status = "panic"]
apply_if(b, cond, then) == IF cond THEN then ELSE b

RECURSIVE add_child(_, _), add_children(_, _)
RECURSIVE Paragraph_build_to(_, _), Run_build_to(_, _), RunChild_build_to(_, _)
RECURSIVE Table_build_to(_, _), TableRow_build_to(_, _), TableCell_build_to(_, _)
RECURSIVE TableCellContent_each(_, _, _), StructuredDataTag_build_to(_, _)

\* the children of w:rPr, one per field that is set
RunPropertyTags ==
    <<<<"style", "w:rStyle">>, <<"fonts", "w:rFonts">>, <<"size", "w:sz">>,
      <<"color", "w:color">>, <<"highlight", "w:highlight">>,
      <<"spacing", "w:spacing">>, <<"underline", "w:u">>, <<"bold", "w:b">>,
      <<"italic", "w:i">>, <<"strike", "w:strike">>, <<"dstrike", "w:dstrike">>,
      <<"vanish", "w:vanish">>, <<"spec_vanish", "w:specVanish">>>>
RECURSIVE RunProperty_fields(_, _, _)
RunProperty_fields(b, rp, i) ==
    IF i > Len(RunPropertyTags) THEN b
    ELSE LET f == RunPropertyTags[i][1]
             tag == RunPropertyTags[i][2]
             v == rp[f]
             toggle == f \in {"bold", "italic", "strike", "dstrike", "vanish", "spec_vanish"}
             attrs == IF ~IsSome(v) \/ f = "fonts" \/ (toggle /\ Unwrap(v)) THEN <<>>
                      ELSE IF toggle THEN <<<<"w:val", <<"f", "a", "l", "s", "e">>>>>>
                      ELSE IF f \in {"size", "spacing"} THEN <<<<"w:val", Format(Unwrap(v))>>>>
                      ELSE <<<<"w:val", Unwrap(v)>>>>
         IN RunProperty_fields(apply_if(b, IsSome(v), closed(b, tag, attrs)), rp, i + 1)
RunProperty_build_to(b, rp) == close(RunProperty_fields(open(b, "w:rPr", <<>>), rp, 1))

\* Pic writer: one pic:pic element
Pic_build_to(b, p) == closed(b, "pic:pic", <<>>)

DrawingPosition_build_to(b, tag, pos) ==
    LET b1 == open(b, tag, <<>>)
    IN IF pos.kind = "Offset"
       THEN close(close(text(open(b1, "wp:posOffset", <<>>), pos.val)))
       ELSE close(close(text(open(b1, "wp:align", <<>>), pos.val)))

\* The w:drawing element is opened before the match on the drawing's data.
Drawing_build_to(b, d) ==
    LET b0 == open(b, "w:drawing", <<>>)
    IN IF IsSome(d.data) /\ Unwrap(d.data).kind = "Pic"
       THEN LET p == Unwrap(d.data)
                b1 == IF p.position_type = "Inline"
                      THEN open(b0, "wp:inline", <<>>)
                      ELSE DrawingPosition_build_to(
                             DrawingPosition_build_to(
                               closed(open(b0, "wp:anchor", <<>>), "wp:simplePos", <<>>),
                               "wp:positionH", p.position_h),
                             "wp:positionV", p.position_v)
                b2 == closed(closed(b1, "wp:extent", <<>>), "wp:effectExtent", <<>>)
                b3 == IF p.allow_overlap THEN closed(b2, "wp:wrapNone", <<>>)
                      ELSE IF p.position_type = "Anchor"
                      THEN closed(b2, "wp:wrapSquare", <<<<"wrapText", "bothSides">>>>)
                      ELSE b2
                b4 == close(closed(open(closed(b3, "wp:docPr", <<>>),
                                        "wp:cNvGraphicFramePr", <<>>),
                                   "a:graphicFrameLocks", <<>>))
                b5 == close(close(Pic_build_to(
                          open(open(b4, "a:graphic", <<>>), "a:graphicData", <<>>), p)))
            IN close(close(b5))
       \* Some(DrawingData::TextBox(_t)) => unimplemented!(..); None => unimplemented!()
       ELSE Panic(b0)

RunChild_build_to(b, c) ==
    IF c.kind = "Text"
    THEN close(text(open(b, "w:t", <<<<"xml:space", "preserve">>>>), c.text))
    ELSE IF c.kind = "Tab" THEN closed(b, "w:tab", <<>>)
    ELSE IF c.kind = "InstrText"
    THEN close(text(open(b, "w:instrText", <<>>), c.instr))
    ELSE IF c.kind = "Drawing" THEN Drawing_build_to(b, c.drawing)
    \* RunChild::Shape(_t) => todo!(..); RunChild::InstrTextString(_) => unreachable!()
    ELSE Panic(b)

Run_build_to(b, r) ==
    close(add_children(RunProperty_build_to(open(b, "w:r", <<>>), r.run_property),
                       r.children))

ParagraphProperty_build_to(b, p) ==
    LET b1 == open(b, "w:pPr", <<>>)
        numPr == close(closed(closed(open(b1, "w:numPr", <<>>),
                                     "w:numId", <<<<"w:val", "1">>>>),
                              "w:ilvl", <<<<"w:val", "0">>>>))
    IN close(RunProperty_build_to(apply_if(b1, p.has_numbering, numPr), RunProperty_new))

Paragraph_build_to(b, p) ==
    close(add_children(
        ParagraphProperty_build_to(open(b, "w:p", <<<<"w14:paraId", "12345678">>>>), p),
        p.children))

BookmarkStart_build_to(b, s) ==
    closed(b, "w:bookmarkStart", <<<<"w:id", ToString(s.id)>>, <<"w:name", s.name>>>>)
BookmarkEnd_build_to(b, e) ==
    closed(b, "w:bookmarkEnd", <<<<"w:id", ToString(e.id)>>>>)

TableProperty_build_to(b, pr) ==
    LET b1 == closed(closed(open(b, "w:tblPr", <<>>),
                            "w:tblW", <<<<"w:w", "0">>, <<"w:type", "auto">>>>),
                     "w:jc", <<<<"w:val", "left">>>>)
    IN close(apply_if(b1, pr.borders, closed(b1, "w:tblBorders", <<>>)))

Table_build_to(b, t) ==
    close(add_children(
        closed(TableProperty_build_to(open(b, "w:tbl", <<>>), t.property),
               "w:tblGrid", <<>>),
        t.rows))

TableRow_build_to(b, r) ==
    close(add_children(closed(open(b, "w:tr", <<>>), "w:trPr", <<>>), r.cells))

\* apply_each over the children of a cell, with the closure of build_to
\* an empty paragraph follows where the cell would otherwise not end in one
then_filler(b, needed) == apply_if(b, needed, add_child(b, Paragraph_new))

TableCellContent_each(b, children, len) ==
    IF children = <<>> THEN b
    ELSE TableCellContent_each(
             then_filler(add_child(b, Head(children)),
                         Head(children).kind = "Table" /\ len = 1),
             Tail(children), len)

\* the cell writer without the filler of an empty cell
TableCell_build_to_NoFiller(b, c) ==
    close(TableCellContent_each(closed(open(b, "w:tc", <<>>), "w:tcPr", <<>>),
                                c.children, Len(c.children)))

TableCell_build_to(b, c) ==
    close(then_filler(TableCellContent_each(
                          closed(open(b, "w:tc", <<>>), "w:tcPr", <<>>),
                          c.children, Len(c.children)),
                      c.children = <<>>))

StructuredDataTagProperty_build_to(b, pr) ==
    LET b1 == RunProperty_build_to(open(b, "w:sdtPr", <<>>), RunProperty_new)
    IN close(apply_if(b1, IsSome(pr.alias),
                      closed(b1, "w:alias", <<<<"w:val", Unwrap(pr.alias)>>>>)))

StructuredDataTag_build_to(b, s) ==
    close(close(add_children(
        open(StructuredDataTagProperty_build_to(open(b, "w:sdt", <<>>), s.property),
             "w:sdtContent", <<>>),
        s.children)))

PageSize_build_to(b, z) ==
    closed(b, "w:pgSz", <<<<"w:w", Format(z.w)>>, <<"w:h", Format(z.h)>>>>)
PageMargin_build_to(b, m) ==
    closed(b, "w:pgMar",
           <<<<"w:top", Format(m.top)>>, <<"w:right", Format(m.right)>>,
             <<"w:bottom", Format(m.bottom)>>, <<"w:left", Format(m.left)>>,
             <<"w:header", Format(m.header)>>, <<"w:footer", Format(m.footer)>>,
             <<"w:gutter", Format(m.gutter)>>>>)
OptAttr(key, opt) == IF IsSome(opt) THEN <<<<key, Format(Unwrap(opt))>>>> ELSE <<>>
DocGrid_build_to(b, g) ==
    closed(b, "w:docGrid",
           <<<<"w:type", g.grid_type>>>> \o OptAttr("w:linePitch", g.line_pitch)
             \o OptAttr("w:charSpace", g.char_space))
HeaderReference_build_to(b, r) ==
    closed(b, "w:headerReference", <<<<"w:type", r.header_type>>, <<"r:id", r.id>>>>)
FooterReference_build_to(b, r) ==
    closed(b, "w:footerReference", <<<<"w:type", r.footer_type>>, <<"r:id", r.id>>>>)
PageNumType_build_to(b, t) ==
    closed(b, "w:pgNumType",
           OptAttr("w:start", t.start)
             \o (IF IsSome(t.chap_style)
                 THEN <<<<"w:chapStyle", Unwrap(t.chap_style)>>>> ELSE <<>>))

\* XMLBuilder::add_optional_child
add_optional_child(b, opt, build_to(_, _)) ==
    IF IsSome(opt) THEN build_to(b, Unwrap(opt)) ELSE b

\* the section property writer with text direction placed before page size
SectionProperty_build_to_DirectionFirst(b, sp) ==
    LET b0 == open(b, "w:sectPr", <<>>)
        b1 == apply_if(b0, sp.text_direction # "lrTb",
                  closed(b0, "w:textDirection", <<<<"w:val", sp.text_direction>>>>))
        b3 == closed(PageMargin_build_to(PageSize_build_to(b1, sp.page_size),
                                         sp.page_margin),
                     "w:cols", <<<<"w:space", Format(sp.space)>>,
                                 <<"w:num", ToString(sp.columns)>>>>)
        b4 == add_optional_child(b3, sp.doc_grid, DocGrid_build_to)
        b5 == add_optional_child(
                add_optional_child(
                  add_optional_child(b4, sp.header_reference, HeaderReference_build_to),
                  sp.first_header_reference, HeaderReference_build_to),
                sp.even_header_reference, HeaderReference_build_to)
        b6 == add_optional_child(
                add_optional_child(
                  add_optional_child(b5, sp.footer_reference, FooterReference_build_to),
                  sp.first_footer_reference, FooterReference_build_to),
                sp.even_footer_reference, FooterReference_build_to)
        b7 == add_optional_child(b6, sp.page_num_type, PageNumType_build_to)
        b9 == apply_if(b7, IsSome(sp.section_type),
                  closed(b7, "w:type", <<<<"w:val", Unwrap(sp.section_type)>>>>))
    IN close(apply_if(b9, sp.title_pg, closed(b9, "w:titlePg", <<>>)))

SectionProperty_build_to(b, sp) ==
    LET b0 == open(b, "w:sectPr", <<>>)
        b3 == closed(PageMargin_build_to(PageSize_build_to(b0, sp.page_size),
                                         sp.page_margin),
                     "w:cols", <<<<"w:space", Format(sp.space)>>,
                                 <<"w:num", ToString(sp.columns)>>>>)
        b4 == add_optional_child(b3, sp.doc_grid, DocGrid_build_to)
        b5 == add_optional_child(
                add_optional_child(
                  add_optional_child(b4, sp.header_reference, HeaderReference_build_to),
                  sp.first_header_reference, HeaderReference_build_to),
                sp.even_header_reference, HeaderReference_build_to)
        b6 == add_optional_child(
                add_optional_child(
                  add_optional_child(b5, sp.footer_reference, FooterReference_build_to),
                  sp.first_footer_reference, FooterReference_build_to),
                sp.even_footer_reference, FooterReference_build_to)
        b7 == add_optional_child(b6, sp.page_num_type, PageNumType_build_to)
        b8 == apply_if(b7, sp.text_direction # "lrTb",
                  closed(b7, "w:textDirection", <<<<"w:val", sp.text_direction>>>>))
        b9 == apply_if(b8, IsSome(sp.section_type),
                  closed(b8, "w:type", <<<<"w:val", Unwrap(sp.section_type)>>>>))
    IN close(apply_if(b9, sp.title_pg, closed(b9, "w:titlePg", <<>>)))

\* BuildXML dispatch of a child (the build_to of the child's own type)
add_child(b, c) ==
    IF b.status # "ok" THEN b
    ELSE IF c.kind = "Paragraph" THEN Paragraph_build_to(b, c)
    ELSE IF c.kind = "Run" THEN Run_build_to(b, c)
    ELSE IF c.kind = "Table" THEN Table_build_to(b, c)
    ELSE IF c.kind = "TableRow" THEN TableRow_build_to(b, c)
    ELSE IF c.kind = "TableCell" THEN TableCell_build_to(b, c)
    ELSE IF c.kind = "StructuredDataTag" THEN StructuredDataTag_build_to(b, c)
    ELSE IF c.kind = "BookmarkStart" THEN BookmarkStart_build_to(b, c)
    ELSE IF c.kind = "BookmarkEnd" THEN BookmarkEnd_build_to(b, c)
    ELSE IF c.kind = "SectionProperty" THEN SectionProperty_build_to(b, c)
    ELSE RunChild_build_to(b, c)

add_children(b, cs) ==
    IF cs = <<>> THEN b ELSE add_children(add_child(b, Head(cs)), Tail(cs))

\* a sink whose failure is forgotten
Recovered(b) == IF b.status = "err" THEN [b EXCEPT !.status = "ok"] ELSE b
\* the document writer going on after a failure among the children
Document_build_to_Recovering(b, d) ==
    close(close(add_child(
        Recovered(add_children(open(open(declaration(b), "w:document",
                                         <<<<"xmlns:w", "main">>>>), "w:body", <<>>),
                               d.children)),
        d.section_property)))

Document_build_to(b, d) ==
    close(close(add_child(add_children(
        open(open(declaration(b), "w:document", <<<<"xmlns:w", "main">>>>),
             "w:body", <<>>),
        d.children), d.section_property)))

\* BuildXML::build(): write to a sink that never fails
build(e) ==
    IF e.kind = "Document" THEN Document_build_to(NewStream(0), e)
    ELSE add_child(NewStream(0), e)

-----------------------------------------------------------------------------
(* Header, footer and settings parts *)

Header_new == [kind |-> "Header", has_numbering |-> FALSE, children |-> <<>>]
Header_add_paragraph(h, p) ==
    [h EXCEPT !.has_numbering = IF p.has_numbering THEN TRUE ELSE @,
              !.children = Append(@, p)]
Header_add_table(h, t) ==
    [h EXCEPT !.has_numbering = IF t.has_numbering THEN TRUE ELSE @,
              !.children = Append(@, t)]
Header_add_structured_data_tag(h, t) ==
    [h EXCEPT !.has_numbering = IF t.has_numbering THEN TRUE ELSE @,
              !.children = Append(@, t)]

Footer_new == [kind |-> "Footer", has_numbering |-> FALSE, children |-> <<>>]
Footer_add_paragraph(f, p) ==
    [f EXCEPT !.has_numbering = IF p.has_numbering THEN TRUE ELSE @,
              !.children = Append(@, p)]
Footer_add_table(f, t) ==
    [f EXCEPT !.has_numbering = IF t.has_numbering THEN TRUE ELSE @,
              !.children = Append(@, t)]

\* Settings::default(), with the fields the writer looks at
Settings_new ==
    [kind |-> "Settings", default_tab_stop |-> 840, zoom |-> 100, doc_id |-> None,
     doc_vars |-> <<>>, even_and_odd_headers |-> FALSE,
     adjust_line_height_in_table |-> FALSE, character_spacing_control |-> None]
Settings_default_tab_stop(st, v) == [st EXCEPT !.default_tab_stop = v]
Settings_zoom(st, v) == [st EXCEPT !.zoom = v]
Settings_even_and_odd_headers(st) == [st EXCEPT !.even_and_odd_headers = TRUE]
Settings_adjust_line_height_in_table(st) ==
    [st EXCEPT !.adjust_line_height_in_table = TRUE]
Settings_character_spacing_control(st, v) ==
    [st EXCEPT !.character_spacing_control = Some(v)]

\* the header writer with its first step left out
Header_build_to_NoDeclaration(b, h) ==
    close(add_children(open(b, "w:hdr", <<<<"xmlns:w", "main">>>>), h.children))

Header_build_to(b, h) ==
    close(add_children(open(declaration(b), "w:hdr", <<<<"xmlns:w", "main">>>>),
                       h.children))

Footer_build_to(b, f) ==
    close(add_children(open(declaration(b), "w:ftr", <<<<"xmlns:w", "main">>>>),
                       f.children))

Zoom_build_to(b, val) == closed(b, "w:zoom", <<<<"w:percent", Format(val)>>>>)
DefaultTabStop_build_to(b, val) ==
    closed(b, "w:defaultTabStop", <<<<"w:val", Format(val)>>>>)

compat_setting(b, name, uri, val) ==
    closed(b, "w:compatSetting",
           <<<<"w:name", name>>, <<"w:uri", uri>>, <<"w:val", val>>>>)

Settings_build_to(b, st) ==
    LET word == "http://schemas.microsoft.com/office/word"
        b1 == Zoom_build_to(
                 DefaultTabStop_build_to(
                    open(declaration(b), "w:settings", <<<<"xmlns:w", "main">>>>),
                    st.default_tab_stop),
                 st.zoom)
        b2 == closed(closed(closed(closed(closed(open(b1, "w:compat", <<>>),
                 "w:spaceForUL", <<>>),
                 "w:balanceSingleByteDoubleByteWidth", <<>>),
                 "w:doNotLeaveBackslashAlone", <<>>),
                 "w:ulTrailSpace", <<>>),
                 "w:doNotExpandShiftReturn", <<>>)
        b3 == apply_if(b2, IsSome(st.character_spacing_control),
                       closed(b2, "w:characterSpacingControl",
                              <<<<"w:val", IF IsSome(st.character_spacing_control)
                                           THEN Unwrap(st.character_spacing_control)
                                           ELSE "">>>>))
        b4 == apply_if(b3, st.adjust_line_height_in_table,
                       closed(b3, "w:adjustLineHeightInTable", <<>>))
        b5 == closed(b4, "w:useFELayout", <<>>)
        b6 == compat_setting(compat_setting(compat_setting(b5,
                 "compatibilityMode", word, "15"),
                 "overrideTableStyleFontSizeAndJustification", word, "1"),
                 "enableOpenTypeFeatures", word, "1")
        b7 == close(compat_setting(compat_setting(compat_setting(b6,
                 "doNotFlipMirrorIndents", word, "1"),
                 "differentiateMultirowTableHeaders", word, "1"),
                 "useWord2013TrackBottomHyphenation", word, "0"))
        b8 == apply_if(b7, st.even_and_odd_headers,
                       closed(b7, "w:evenAndOddHeaders", <<>>))
    IN close(b8)

-----------------------------------------------------------------------------
(* Tokenizer: from the written events to the generic element tree *)

Element(tag, attrs, children) ==
    [tag |-> tag, attrs |-> attrs, children |-> children, text |-> ""]
TextNode(txt) == [tag |-> "$text", attrs |-> <<>>, children |-> <<>>, text |-> txt]

RECURSIVE ParseNodes(_, _)
\* the sibling nodes that start at event i, and the index of the event
\* (a close, or the end of input) that ends them
ParseNodes(ev, i) ==
    IF i > Len(ev) \/ ev[i].t = "close" THEN [nodes |-> <<>>, next |-> i]
    ELSE IF ev[i].t = "open"
    THEN LET inner == ParseNodes(ev, i + 1)
             rest == ParseNodes(ev, inner.next + 1)
         IN [nodes |-> <<Element(ev[i].tag, ev[i].attrs, inner.nodes)>> \o rest.nodes,
             next |-> rest.next]
    ELSE LET rest == ParseNodes(ev, i + 1)
         IN [nodes |-> (IF ev[i].t = "text" THEN <<TextNode(ev[i].tag)>> ELSE <<>>)
                          \o rest.nodes,
             next |-> rest.next]

RECURSIVE FirstElement(_)
FirstElement(nodes) ==
    IF nodes = <<>> THEN None
    ELSE IF Head(nodes).tag # "$text" THEN Some(Head(nodes))
    ELSE FirstElement(Tail(nodes))

\* the root element of the input, None when the input holds no element
Tokenize(ev) == FirstElement(ParseNodes(ev, 1).nodes)

-----------------------------------------------------------------------------
(* Tolerant reader: the serde helper structures and Deserialize impls *)

RECURSIVE AttrOf(_, _)
\* a field `#[serde(rename = "@k", alias = "@w:k", default)] Option<String>`
AttrOf(attrs, keys) ==
    IF attrs = <<>> THEN None
    ELSE IF Head(attrs)[1] \in keys THEN Some(Head(attrs)[2])
    ELSE AttrOf(Tail(attrs), keys)
Attr(el, keys) == AttrOf(el.attrs, keys)

RECURSIVE ChildOf(_, _)
\* a field `#[serde(rename = "k", alias = "w:k", default)] Option<T>`
ChildOf(nodes, keys) ==
    IF nodes = <<>> THEN None
    ELSE IF Head(nodes).tag \in keys THEN Some(Head(nodes))
    ELSE ChildOf(Tail(nodes), keys)
Child(el, keys) == ChildOf(el.children, keys)

RECURSIVE ValueOf(_, _)
\* the `$value` field: the children no named field of the struct takes
ValueOf(nodes, named) ==
    IF nodes = <<>> THEN <<>>
    ELSE (IF Head(nodes).tag \in named THEN <<>> ELSE <<Head(nodes)>>)
            \o ValueOf(Tail(nodes), named)
Value(el, named) == ValueOf(el.children, named)

\* a field `#[serde(rename = "$text", default)] String`
TextOf(el) ==
    LET t == ChildOf(el.children, {"$text"})
    IN IF IsSome(t) THEN Unwrap(t).text ELSE ""

\* str::parse::<usize>().ok()
ParseUsize(str) ==
    IF \E n \in 0..MaxNum : ToString(n) = str
    THEN Some(CHOOSE n \in 0..MaxNum : ToString(n) = str)
    ELSE None
parse_optional_usize(v) == IF IsSome(v) THEN ParseUsize(Unwrap(v)) ELSE None

Tag(el, name) == el.tag \in {name, "w:" \o name}

\* the marker mapping with a missing name defaulted to the empty string
marker_from_xml_DefaultName(el) ==
    LET id == parse_optional_usize(Attr(el, {"id", "w:id"}))
        name == Attr(el, {"name", "w:name"})
    IN IF id = None THEN None
       ELSE IF Tag(el, "bookmarkStart")
       THEN Some(BookmarkStart_new(Unwrap(id), IF name = None THEN "" ELSE Unwrap(name)))
       ELSE IF Tag(el, "bookmarkEnd") THEN Some(BookmarkEnd_new(Unwrap(id)))
       ELSE IF Tag(el, "commentRangeStart") THEN Some(CommentRangeStart_new(Unwrap(id)))
       ELSE Some(CommentRangeEnd_new(Unwrap(id)))

\* the four marker variants every child mapping treats alike; `?` on a
\* missing id or name drops the child
marker_from_xml(el) ==
    LET id == parse_optional_usize(Attr(el, {"id", "w:id"}))
        name == Attr(el, {"name", "w:name"})
    IN IF Tag(el, "bookmarkStart")
       THEN IF id = None THEN None
            ELSE IF name = None THEN None
            ELSE Some(BookmarkStart_new(Unwrap(id), Unwrap(name)))
       ELSE IF id = None THEN None
       ELSE IF Tag(el, "bookmarkEnd") THEN Some(BookmarkEnd_new(Unwrap(id)))
       ELSE IF Tag(el, "commentRangeStart") THEN Some(CommentRangeStart_new(Unwrap(id)))
       ELSE Some(CommentRangeEnd_new(Unwrap(id)))
IsMarker(el) ==
    \/ Tag(el, "bookmarkStart") \/ Tag(el, "bookmarkEnd")
    \/ Tag(el, "commentRangeStart") \/ Tag(el, "commentRangeEnd")

\* parse_on_off of drawing.rs: off for "0", "false" and "off", on for every
\* other value, the default when the attribute is missing
drawing_on_off(raw, default) ==
    IF ~IsSome(raw) THEN default
    ELSE to_ascii_lowercase(Trim(Unwrap(raw)))
            \notin {<<"0">>, <<"f", "a", "l", "s", "e">>, <<"o", "f", "f">>}

PicAligns == {"left", "right", "center", "bottom", "top"}
RECURSIVE parse_wp_position(_)
\* the first child that parses decides; Offset(0) when none does
parse_wp_position(children) ==
    IF children = <<>> THEN [kind |-> "Offset", val |-> "0"]
    ELSE IF Head(children).tag \in {"posOffset", "wp:posOffset"}
            /\ IsSome(ParseUsize(TextOf(Head(children))))
    THEN [kind |-> "Offset", val |-> ToString(Unwrap(ParseUsize(TextOf(Head(children)))))]
    ELSE IF Head(children).tag \in {"align", "wp:align"}
            /\ TextOf(Head(children)) \in PicAligns
    THEN [kind |-> "Align", val |-> TextOf(Head(children))]
    ELSE parse_wp_position(Tail(children))

RECURSIVE GrandChildren(_, _)
\* the children of every node with one of the tags, in document order
GrandChildren(nodes, keys) ==
    IF nodes = <<>> THEN <<>>
    ELSE (IF Head(nodes).tag \in keys THEN Head(nodes).children ELSE <<>>)
            \o GrandChildren(Tail(nodes), keys)

\* Some as soon as a txbx child holds a txbxContent child
parse_wps_shape_text_box(shape) ==
    IF IsSome(ChildOf(GrandChildren(shape.children, {"txbx", "wps:txbx"}),
                      {"txbxContent", "w:txbxContent"}))
    THEN Some(TextBox_new) ELSE None

RECURSIVE FirstTextBox(_)
\* `if text_box.is_none()`: the first shape that holds a text box
FirstTextBox(nodes) ==
    IF nodes = <<>> THEN None
    ELSE IF Head(nodes).tag \in {"wsp", "wps:wsp"}
            /\ IsSome(parse_wps_shape_text_box(Head(nodes)))
    THEN parse_wps_shape_text_box(Head(nodes))
    ELSE FirstTextBox(Tail(nodes))

\* Pic::with_empty(), filled by parse_pic_from_xml
parse_pic_from_xml(xml) == Pic_new

\* the children of the a:graphicData elements below the a:graphic children
GraphicData(nodes) ==
    GrandChildren(GrandChildren(nodes, {"graphic", "a:graphic"}),
                  {"graphicData", "a:graphicData"})
\* the first picture and the first text box below them
parse_graphic_payload(nodes) ==
    [pic |-> IF IsSome(ChildOf(GraphicData(nodes), {"pic", "pic:pic"}))
             THEN Some(parse_pic_from_xml(
                     Unwrap(ChildOf(GraphicData(nodes), {"pic", "pic:pic"}))))
             ELSE None,
     text_box |-> FirstTextBox(GraphicData(nodes))]

RECURSIVE LastChildren(_, _, _)
\* the children of the last node with one of the tags: every occurrence
\* assigns anew
LastChildren(nodes, keys, found) ==
    IF nodes = <<>> THEN found
    ELSE LastChildren(Tail(nodes), keys,
                      IF Head(nodes).tag \in keys THEN Head(nodes).children ELSE found)

\* a picture wins over a text box; neither leaves Drawing::new()
drawing_of(payload, position_type, allow_overlap, position_h, position_v) ==
    IF IsSome(payload.pic)
    THEN Drawing_pic(Drawing_new,
            [Unwrap(payload.pic) EXCEPT !.position_type = position_type,
                                        !.allow_overlap = allow_overlap,
                                        !.position_h = position_h,
                                        !.position_v = position_v])
    ELSE IF IsSome(payload.text_box)
    THEN Drawing_text_box(Drawing_new, Unwrap(payload.text_box))
    ELSE Drawing_new

parse_drawing_container(xml, position_type) ==
    drawing_of(parse_graphic_payload(xml.children),
               position_type,
               drawing_on_off(Attr(xml, {"allowOverlap", "wp:allowOverlap"}), TRUE),
               parse_wp_position(LastChildren(xml.children,
                                              {"positionH", "wp:positionH"}, <<>>)),
               parse_wp_position(LastChildren(xml.children,
                                              {"positionV", "wp:positionV"}, <<>>)))

\* the first inline or anchor child is the drawing; Drawing::new() without one
Drawing_deserialize(el) ==
    IF ~IsSome(Child(el, {"inline", "wp:inline", "anchor", "wp:anchor"}))
    THEN Drawing_new
    ELSE parse_drawing_container(
            Unwrap(Child(el, {"inline", "wp:inline", "anchor", "wp:anchor"})),
            IF Unwrap(Child(el, {"inline", "wp:inline", "anchor", "wp:anchor"})).tag
                  \in {"inline", "wp:inline"}
            THEN "Inline" ELSE "Anchor")

\* only a drawing that holds a picture is kept
drawing_child(d) ==
    IF IsSome(d.data) /\ Unwrap(d.data).kind = "Pic"
    THEN Some([kind |-> "Drawing", drawing |-> d]) ELSE None

run_child_from_xml(el) ==
    IF Tag(el, "t") THEN Some([kind |-> "Text", text |-> TextOf(el)])
    ELSE IF Tag(el, "tab") THEN Some([kind |-> "Tab"])
    ELSE IF Tag(el, "drawing") THEN drawing_child(Drawing_deserialize(el))
    ELSE IF Tag(el, "instrText")
    THEN IF TextOf(el) = "" THEN None
         ELSE Some([kind |-> "InstrTextString", text |-> TextOf(el)])
    \* pict, shape, rPr and every unknown element
    ELSE None

\* an on/off toggle is off only for the values "0" and "false"
parse_on_off(v) ==
    ~(IsSome(v) /\ to_ascii_lowercase(Trim(Unwrap(v)))
                    \in {<<"0">>, <<"f", "a", "l", "s", "e">>})

\* parse::<usize>(), else parse::<f32>() as usize
parse_usize(raw) ==
    IF ~IsSome(raw) THEN None
    ELSE or_else(parse_u32(Unwrap(raw)), float_as_usize(parse_f64(Unwrap(raw))))

\* parse::<i32>(), else parse::<f64>() as i32
parse_i32(raw) ==
    IF ~IsSome(raw) THEN None ELSE float_as_i32(parse_f64(Unwrap(raw)))

\* the variants of RunPropertyChildXml and the field each one fills
RunPropertyChildren ==
    <<<<"rStyle", "style">>, <<"sz", "size">>, <<"color", "color">>,
      <<"highlight", "highlight">>, <<"spacing", "spacing">>, <<"rFonts", "fonts">>,
      <<"u", "underline">>, <<"b", "bold">>, <<"bCs", "bold_cs">>, <<"i", "italic">>,
      <<"iCs", "italic_cs">>, <<"strike", "strike">>, <<"dstrike", "dstrike">>,
      <<"vanish", "vanish">>, <<"specVanish", "spec_vanish">>>>
RunPropertyXml_default ==
    [f \in {RunPropertyChildren[i][2] : i \in DOMAIN RunPropertyChildren} |-> None]

\* one iteration with the guard `if acc.field.is_none()` left out
run_property_xml_child_LastWins(acc, el) ==
    IF \E i \in DOMAIN RunPropertyChildren : Tag(el, RunPropertyChildren[i][1])
    THEN LET f == RunPropertyChildren[
                     CHOOSE i \in DOMAIN RunPropertyChildren :
                        Tag(el, RunPropertyChildren[i][1])][2]
         IN [acc EXCEPT ![f] = Some(el)]
    ELSE acc

\* one iteration of the loop over the children of w:rPr: a field that is
\* already set ignores a later child of its kind
run_property_xml_child(acc, el) ==
    IF \E i \in DOMAIN RunPropertyChildren : Tag(el, RunPropertyChildren[i][1])
    THEN LET f == RunPropertyChildren[
                     CHOOSE i \in DOMAIN RunPropertyChildren :
                        Tag(el, RunPropertyChildren[i][1])][2]
         IN IF acc[f] = None THEN [acc EXCEPT ![f] = Some(el)] ELSE acc
    ELSE acc

RECURSIVE run_property_xml_children(_, _)
run_property_xml_children(acc, nodes) ==
    IF nodes = <<>> THEN acc
    ELSE run_property_xml_children(run_property_xml_child(acc, Head(nodes)),
                                   Tail(nodes))

RunPropertyXml_deserialize(el) ==
    run_property_xml_children(RunPropertyXml_default, el.children)

Val(optEl) == IF IsSome(optEl) THEN Attr(Unwrap(optEl), {"val", "w:val"}) ELSE None
OnOff(rp, field, optEl) ==
    IF IsSome(optEl) THEN RunProperty_toggle(rp, field, parse_on_off(Val(optEl))) ELSE rp
SetIf(rp, field, v) == IF IsSome(v) THEN RunProperty_set(rp, field, Unwrap(v)) ELSE rp

\* a child whose presence alone turns the toggle on
Present(rp, field, optEl) ==
    IF IsSome(optEl) THEN RunProperty_toggle(rp, field, TRUE) ELSE rp

RunFontsAttrs ==
    <<"ascii", "eastAsia", "hAnsi", "cs", "asciiTheme", "eastAsiaTheme",
      "hAnsiTheme", "cstheme", "hint">>

\* the attributes of the fonts child, each one optional
Fonts(rp, optEl) ==
    IF IsSome(optEl)
    THEN RunProperty_set(rp, "fonts",
            [i \in DOMAIN RunFontsAttrs |->
                Attr(Unwrap(optEl), {RunFontsAttrs[i], "w:" \o RunFontsAttrs[i]})])
    ELSE rp

parse_run_property_xml(xml) ==
    IF ~IsSome(xml) THEN RunProperty_new
    ELSE LET x == Unwrap(xml)
             r1 == SetIf(RunProperty_new, "style", Val(x.style))
             r2 == SetIf(r1, "size", parse_usize(Val(x.size)))
             r3 == SetIf(r2, "color", Val(x.color))
             r4 == SetIf(r3, "highlight", Val(x.highlight))
             r5 == SetIf(r4, "spacing", parse_i32(Val(x.spacing)))
             r6 == SetIf(r5, "underline", Val(x.underline))
             r7 == OnOff(r6, "bold", x.bold)
             r8 == OnOff(r7, "italic", x.italic)
             r9 == OnOff(r8, "strike", x.strike)
             r10 == OnOff(r9, "dstrike", x.dstrike)
             r11 == Present(r10, "vanish", x.vanish)
             r12 == Present(r11, "spec_vanish", x.spec_vanish)
         IN Fonts(r12, x.fonts)

Run_deserialize(el) ==
    [kind |-> "Run",
     run_property |->
        parse_run_property_xml(
            IF IsSome(Child(el, {"rPr", "w:rPr"}))
            THEN Some(RunPropertyXml_deserialize(Unwrap(Child(el, {"rPr", "w:rPr"}))))
            ELSE None),
     children |-> Flatten([i \in DOMAIN Value(el, {"rPr", "w:rPr"}) |->
                            run_child_from_xml(Value(el, {"rPr", "w:rPr"})[i])])]

\* into_iter().filter_map(from_xml).collect()
filter_map(nodes, from_xml(_)) == Flatten([i \in DOMAIN nodes |-> from_xml(nodes[i])])

\* whether a child that can carry the flag carries it
any_has_numbering(children) ==
    AnyTrue([i \in DOMAIN children |->
                IF children[i].kind \in {"Paragraph", "Table", "TableRow", "TableCell",
                                         "StructuredDataTag"}
                THEN children[i].has_numbering ELSE FALSE])

\* a cell and a row read from markup: the children, and the flag they give
TableCell_with(children) ==
    [kind |-> "TableCell", children |-> children,
     has_numbering |-> any_has_numbering(children)]
TableRow_with(cells) ==
    [kind |-> "TableRow", cells |-> cells, has_numbering |-> any_has_numbering(cells)]

RECURSIVE Paragraph_deserialize(_), Table_deserialize(_), TableRow_deserialize(_)
RECURSIVE TableCell_deserialize(_), StructuredDataTag_deserialize(_)
RECURSIVE Hyperlink_deserialize(_), Insert_deserialize(_), Delete_deserialize(_)
RECURSIVE deserialize(_, _)

delete_child_from_xml(el) ==
    IF Tag(el, "r") THEN Some(deserialize("Run", el))
    ELSE IF Tag(el, "commentRangeStart") \/ Tag(el, "commentRangeEnd")
    THEN marker_from_xml(el)
    ELSE None

Delete_deserialize(el) ==
    LET a == Attr(el, {"author", "w:author"})
        d == Attr(el, {"date", "w:date"})
    IN [kind |-> "Delete",
        author |-> IF IsSome(a) THEN Unwrap(a) ELSE "unnamed",
        date |-> IF IsSome(d) THEN Unwrap(d) ELSE "1970-01-01T00:00:00Z",
        children |-> filter_map(el.children, delete_child_from_xml)]

insert_child_from_xml(el) ==
    IF Tag(el, "r") THEN Some(deserialize("Run", el))
    ELSE IF Tag(el, "del") THEN Some(deserialize("Delete", el))
    ELSE IF Tag(el, "commentRangeStart") \/ Tag(el, "commentRangeEnd")
    THEN marker_from_xml(el)
    ELSE None

Insert_deserialize(el) ==
    LET a == Attr(el, {"author", "w:author"})
        d == Attr(el, {"date", "w:date"})
    IN [kind |-> "Insert",
        author |-> IF IsSome(a) THEN Unwrap(a) ELSE "unnamed",
        date |-> IF IsSome(d) THEN Unwrap(d) ELSE "1970-01-01T00:00:00Z",
        children |-> filter_map(el.children, insert_child_from_xml)]

hyperlink_child_from_xml(el) ==
    IF Tag(el, "r") THEN Some(deserialize("Run", el))
    ELSE IF IsMarker(el) THEN marker_from_xml(el)
    ELSE IF Tag(el, "ins") THEN Some(deserialize("Insert", el))
    ELSE IF Tag(el, "del") THEN Some(deserialize("Delete", el))
    ELSE None

Hyperlink_deserialize(el) ==
    LET rid == Attr(el, {"id", "r:id"})
        anchor == Attr(el, {"anchor", "w:anchor"})
    IN [kind |-> "Hyperlink",
        link |-> IF IsSome(rid) /\ rid # Some("") THEN <<"External", Unwrap(rid)>>
                 ELSE IF IsSome(anchor) /\ anchor # Some("")
                 THEN <<"Anchor", Unwrap(anchor)>>
                 ELSE <<"External", "">>,
        children |-> filter_map(el.children, hyperlink_child_from_xml)]

\* the child mapping of a paragraph
paragraph_child_from_xml(el) ==
    IF Tag(el, "hyperlink") THEN Some(deserialize("Hyperlink", el))
    ELSE hyperlink_child_from_xml(el)

\* a paragraph references a numbering definition iff its pPr has a numPr
Paragraph_deserialize(el) ==
    LET pPr == Child(el, {"pPr", "w:pPr"})
    IN [kind |-> "Paragraph",
        children |-> filter_map(Value(el, {"pPr", "w:pPr"}), paragraph_child_from_xml),
        has_numbering |-> IF IsSome(pPr)
                          THEN IsSome(Child(Unwrap(pPr), {"numPr", "w:numPr"}))
                          ELSE FALSE]

table_cell_child_from_xml(el) ==
    IF Tag(el, "p") THEN Some(deserialize("Paragraph", el))
    ELSE IF Tag(el, "tbl") THEN Some(deserialize("Table", el))
    ELSE None

TableCell_deserialize(el) ==
    TableCell_with(filter_map(Value(el, {"tcPr", "w:tcPr"}), table_cell_child_from_xml))

table_row_child_from_xml(el) ==
    IF Tag(el, "tc") THEN Some(deserialize("TableCell", el)) ELSE None

TableRow_deserialize(el) ==
    TableRow_with(filter_map(Value(el, {"trPr", "w:trPr"}), table_row_child_from_xml))

table_child_from_xml(el) ==
    IF Tag(el, "tr") THEN Some(deserialize("TableRow", el)) ELSE None

\* every branch starts from TableProperty::without_borders(); the borders
\* element of the markup is an ignored field
parse_table_property_xml(xml) == TableProperty_without_borders

Table_with(rows, property) ==
    [kind |-> "Table", rows |-> rows, property |-> property,
     has_numbering |-> any_has_numbering(rows)]

Table_deserialize(el) ==
    Table_with(filter_map(Value(el, {"tblPr", "w:tblPr", "tblGrid", "w:tblGrid"}),
                          table_child_from_xml),
               parse_table_property_xml(Child(el, {"tblPr", "w:tblPr"})))

\* the content mapping without the arm for a nested structured data tag
sdt_child_from_xml_NoNested(el) ==
    IF Tag(el, "r") THEN Some(deserialize("Run", el))
    ELSE IF Tag(el, "p") THEN Some(deserialize("Paragraph", el))
    ELSE IF Tag(el, "tbl") THEN Some(deserialize("Table", el))
    ELSE IF IsMarker(el) THEN marker_from_xml(el)
    ELSE None

sdt_child_from_xml(el) ==
    IF Tag(el, "r") THEN Some(deserialize("Run", el))
    ELSE IF Tag(el, "p") THEN Some(deserialize("Paragraph", el))
    ELSE IF Tag(el, "tbl") THEN Some(deserialize("Table", el))
    ELSE IF IsMarker(el) THEN marker_from_xml(el)
    ELSE IF Tag(el, "sdt") THEN Some(deserialize("StructuredDataTag", el))
    ELSE None

StructuredDataTagProperty_deserialize(el) ==
    LET a == Child(el, {"alias", "w:alias"})
    IN [alias |-> IF IsSome(a) THEN Attr(Unwrap(a), {"val", "w:val"}) ELSE None]

StructuredDataTag_with(children, pr) ==
    [kind |-> "StructuredDataTag", children |-> children,
     property |-> IF IsSome(pr) THEN StructuredDataTagProperty_deserialize(Unwrap(pr))
                  ELSE [alias |-> None],
     has_numbering |-> any_has_numbering(children)]

\* the children of the content element, if there is one
ContentOf(content) == IF IsSome(content) THEN Unwrap(content).children ELSE <<>>

StructuredDataTag_deserialize(el) ==
    StructuredDataTag_with(
        filter_map(ContentOf(Child(el, {"sdtContent", "w:sdtContent"})),
                   sdt_child_from_xml),
        Child(el, {"sdtPr", "w:sdtPr"}))

\* T::deserialize for the type T a child mapping asks for
deserialize(type, el) ==
    IF type = "Run" THEN Run_deserialize(el)
    ELSE IF type = "Paragraph" THEN Paragraph_deserialize(el)
    ELSE IF type = "Table" THEN Table_deserialize(el)
    ELSE IF type = "TableRow" THEN TableRow_deserialize(el)
    ELSE IF type = "TableCell" THEN TableCell_deserialize(el)
    ELSE IF type = "StructuredDataTag" THEN StructuredDataTag_deserialize(el)
    ELSE IF type = "Hyperlink" THEN Hyperlink_deserialize(el)
    ELSE IF type = "Insert" THEN Insert_deserialize(el)
    ELSE Delete_deserialize(el)

\* parse_dxa_i32 with a point value taken as it stands
\* the number n in points (scaled to twentieths) or in twentieths
dxa_value(n, points) ==
    IF ~IsSome(n) THEN None
    ELSE IF points THEN Some(as_i32(times20(Unwrap(n))))
    ELSE Some(as_i32(Unwrap(n)))
\* r is the trimmed text and v what strip_suffix("pt") makes of it
dxa_text(r, v) == dxa_value(parse_f64(IF IsSome(v) THEN Unwrap(v) ELSE r), IsSome(v))
dxa_text_Unscaled(r, v) == float_as_i32(parse_f64(IF IsSome(v) THEN Unwrap(v) ELSE r))
dxa_trimmed(r) == dxa_text(r, strip_suffix_pt(r))
dxa_trimmed_Unscaled(r) == dxa_text_Unscaled(r, strip_suffix_pt(r))

\* the suffix is stripped and the number is not scaled
parse_dxa_i32_Unscaled(raw) ==
    IF ~IsSome(raw) THEN None ELSE dxa_trimmed_Unscaled(Trim(Unwrap(raw)))

\* a distance in twentieths of a point, or in points with the suffix "pt"
parse_dxa_i32(raw) ==
    IF ~IsSome(raw) THEN None ELSE dxa_trimmed(Trim(Unwrap(raw)))

\* .filter(|v| *v >= 0)
non_negative(v) == IF IsSome(v) /\ Unwrap(v) >= 0 THEN v ELSE None
parse_dxa_u32(raw) == non_negative(parse_dxa_i32(raw))

\* the names DocGridType::from_str and SectionType::from_str accept
DocGridTypes == {"default", "lines", "linesAndChars", "snapToChars"}
SectionTypes == {"nextPage", "nextColumn", "continuous", "evenPage", "oddPage"}

\* parse::<f32>().ok() of an optional attribute
FloatField(raw) == IF IsSome(raw) THEN parse_f64(Unwrap(raw)) ELSE None

parse_doc_grid(el) ==
    LET grid_type == Attr(el, {"type", "w:type"})
    IN Some([grid_type |-> IF IsSome(grid_type) /\ Unwrap(grid_type) \in DocGridTypes
                          THEN Unwrap(grid_type) ELSE DocGrid_with_empty.grid_type,
             line_pitch |->
                float_as_usize(FloatField(Attr(el, {"linePitch", "w:linePitch"}))),
             char_space |->
                float_as_i32(FloatField(Attr(el, {"charSpace", "w:charSpace"})))])

parse_page_num_type(el) ==
    LET start == Attr(el, {"start", "w:start"})
    IN [start |-> IF IsSome(start) THEN parse_u32(Unwrap(start)) ELSE None,
        chap_style |-> Attr(el, {"chapStyle", "w:chapStyle"})]

\* the value of one margin or size attribute: the parsed one, else the
\* one of PageMargin::new() / PageSize::new()
DxaOr(parsed, default) == IF IsSome(parsed) THEN Unwrap(parsed) ELSE default

\* one iteration of the loop over the children of the section property
section_property_child(sp, el) ==
    IF Tag(el, "pgMar")
    THEN SectionProperty_page_margin(sp,
           [top |-> DxaOr(parse_dxa_i32(Attr(el, {"top", "w:top"})), PageMargin_new.top),
            right |-> DxaOr(parse_dxa_i32(Attr(el, {"right", "w:right"})),
                            PageMargin_new.right),
            bottom |-> DxaOr(parse_dxa_i32(Attr(el, {"bottom", "w:bottom"})),
                             PageMargin_new.bottom),
            left |-> DxaOr(parse_dxa_i32(Attr(el, {"left", "w:left"})),
                           PageMargin_new.left),
            header |-> DxaOr(parse_dxa_i32(Attr(el, {"header", "w:header"})),
                             PageMargin_new.header),
            footer |-> DxaOr(parse_dxa_i32(Attr(el, {"footer", "w:footer"})),
                             PageMargin_new.footer),
            gutter |-> DxaOr(parse_dxa_i32(Attr(el, {"gutter", "w:gutter"})),
                             PageMargin_new.gutter)])
    ELSE IF Tag(el, "pgSz")
    THEN SectionProperty_page_size(sp,
           [w |-> DxaOr(parse_dxa_u32(Attr(el, {"w", "w:w"})), PageSize_new.w),
            h |-> DxaOr(parse_dxa_u32(Attr(el, {"h", "w:h"})), PageSize_new.h)])
    ELSE IF Tag(el, "docGrid")
    THEN SectionProperty_doc_grid(sp, Unwrap(parse_doc_grid(el)))
    ELSE IF Tag(el, "pgNumType")
    THEN SectionProperty_page_num_type(sp, parse_page_num_type(el))
    ELSE IF Tag(el, "headerReference")
    THEN LET id == Attr(el, {"id", "w:id", "r:id"})
             rid == IF IsSome(id) THEN Unwrap(id) ELSE ""
             t == Attr(el, {"type", "w:type"})
             header_type == IF IsSome(t) THEN Unwrap(t) ELSE "default"
             r == Some(HeaderReference_new(header_type, rid))
         IN IF header_type = "default" THEN [sp EXCEPT !.header_reference = r]
            ELSE IF header_type = "first" THEN [sp EXCEPT !.first_header_reference = r]
            ELSE IF header_type = "even" THEN [sp EXCEPT !.even_header_reference = r]
            ELSE sp
    ELSE IF Tag(el, "footerReference")
    THEN LET id == Attr(el, {"id", "w:id", "r:id"})
             rid == IF IsSome(id) THEN Unwrap(id) ELSE ""
             t == Attr(el, {"type", "w:type"})
             footer_type == IF IsSome(t) THEN Unwrap(t) ELSE "default"
             r == Some(FooterReference_new(footer_type, rid))
         IN IF footer_type = "default" THEN [sp EXCEPT !.footer_reference = r]
            ELSE IF footer_type = "first" THEN [sp EXCEPT !.first_footer_reference = r]
            ELSE IF footer_type = "even" THEN [sp EXCEPT !.even_footer_reference = r]
            ELSE sp
    ELSE IF Tag(el, "type")
    THEN LET val == Attr(el, {"val", "w:val"})
         IN IF IsSome(val) /\ Unwrap(val) \in SectionTypes
            THEN [sp EXCEPT !.section_type = val] ELSE sp
    \* a titlePg child sets the flag whatever its value
    ELSE IF Tag(el, "titlePg") THEN SectionProperty_title_pg(sp)
    \* Unknown, among them the columns and the text direction elements
    ELSE sp

RECURSIVE section_property_children(_, _)
section_property_children(sp, nodes) ==
    IF nodes = <<>> THEN sp
    ELSE section_property_children(section_property_child(sp, Head(nodes)), Tail(nodes))

SectionProperty_deserialize(el) ==
    section_property_children(SectionProperty_new, el.children)

\* the value parsed as a float and cast, else 840
DefaultTabStop_deserialize(el) ==
    [kind |-> "DefaultTabStop",
     val |-> OrDefault(float_as_usize(FloatField(Attr(el, {"val", "w:val"}))), 840)]

parse_usize_attr(value, default) == OrDefault(parse_usize(value), default)

\* ParagraphProperty::new(), in the fields the level inputs can populate
ParagraphProperty_new == [style |-> None, keep_next |-> None, run_property |-> RunProperty_new]
parse_paragraph_property_xml(xml) ==
    IF ~IsSome(xml) THEN ParagraphProperty_new
    ELSE LET x == Unwrap(xml)
             style == Val(Child(x, {"pStyle", "w:pStyle"}))
             keep_next == Child(x, {"keepNext", "w:keepNext"})
             rPr == Child(x, {"rPr", "w:rPr"})
         IN [style |-> style,
             keep_next |-> IF IsSome(keep_next) /\ parse_on_off(Val(keep_next))
                           THEN Some(TRUE) ELSE None,
             run_property |->
                IF IsSome(rPr)
                THEN parse_run_property_xml(Some(RunPropertyXml_deserialize(Unwrap(rPr))))
                ELSE RunProperty_new]

\* the names LevelSuffixType::from_str accepts
LevelSuffixTypes == {"nothing", "space", "tab"}

\* level_from_xml with the start of a level without a start element read as 0
level_from_xml_StartZero(xml) ==
    LET suffix == Val(Child(xml, {"suff", "w:suff"}))
        restart == Val(Child(xml, {"lvlRestart", "w:lvlRestart"}))
        pPr == Child(xml, {"pPr", "w:pPr"})
        rPr == Child(xml, {"rPr", "w:rPr"})
    IN [kind |-> "Level",
        level |-> parse_usize_attr(Attr(xml, {"ilvl", "w:ilvl"}), 0),
        start |-> parse_usize_attr(Val(Child(xml, {"start", "w:start"})), 0),
        format |-> OrDefault(Val(Child(xml, {"numFmt", "w:numFmt"})), "decimal"),
        text |-> OrDefault(Val(Child(xml, {"lvlText", "w:lvlText"})), ""),
        jc |-> OrDefault(Val(Child(xml, {"lvlJc", "w:lvlJc"})), "left"),
        paragraph_style |-> Val(Child(xml, {"pStyle", "w:pStyle"})),
        suffix |-> IF IsSome(suffix) /\ Unwrap(suffix) \in LevelSuffixTypes
                   THEN Unwrap(suffix) ELSE "tab",
        level_restart |-> IF IsSome(restart) THEN parse_u32(Unwrap(restart)) ELSE None,
        is_lgl |-> IsSome(Child(xml, {"isLgl", "w:isLgl"})),
        paragraph_property |-> parse_paragraph_property_xml(pPr),
        run_property |->
            parse_run_property_xml(
                IF IsSome(rPr) THEN Some(RunPropertyXml_deserialize(Unwrap(rPr))) ELSE None)]

level_from_xml(xml) ==
    LET suffix == Val(Child(xml, {"suff", "w:suff"}))
        restart == Val(Child(xml, {"lvlRestart", "w:lvlRestart"}))
        pPr == Child(xml, {"pPr", "w:pPr"})
        rPr == Child(xml, {"rPr", "w:rPr"})
    IN [kind |-> "Level",
        level |-> parse_usize_attr(Attr(xml, {"ilvl", "w:ilvl"}), 0),
        start |-> parse_usize_attr(Val(Child(xml, {"start", "w:start"})), 1),
        format |-> OrDefault(Val(Child(xml, {"numFmt", "w:numFmt"})), "decimal"),
        text |-> OrDefault(Val(Child(xml, {"lvlText", "w:lvlText"})), ""),
        jc |-> OrDefault(Val(Child(xml, {"lvlJc", "w:lvlJc"})), "left"),
        paragraph_style |-> Val(Child(xml, {"pStyle", "w:pStyle"})),
        suffix |-> IF IsSome(suffix) /\ Unwrap(suffix) \in LevelSuffixTypes
                   THEN Unwrap(suffix) ELSE "tab",
        level_restart |-> IF IsSome(restart) THEN parse_u32(Unwrap(restart)) ELSE None,
        is_lgl |-> IsSome(Child(xml, {"isLgl", "w:isLgl"})),
        paragraph_property |-> parse_paragraph_property_xml(pPr),
        run_property |->
            parse_run_property_xml(
                IF IsSome(rPr) THEN Some(RunPropertyXml_deserialize(Unwrap(rPr))) ELSE None)]

AbstractNumbering_deserialize(el) ==
    LET lvls == SelectSeq(el.children, LAMBDA e : Tag(e, "lvl"))
    IN [kind |-> "AbstractNumbering",
        id |-> parse_usize_attr(Attr(el, {"abstractNumId", "w:abstractNumId"}), 0),
        multi_level_type |-> Val(Child(el, {"multiLevelType", "w:multiLevelType"})),
        style_link |-> Val(Child(el, {"styleLink", "w:styleLink"})),
        num_style_link |-> Val(Child(el, {"numStyleLink", "w:numStyleLink"})),
        levels |-> [i \in DOMAIN lvls |-> level_from_xml(lvls[i])]]

document_child_from_xml(el) ==
    IF Tag(el, "p") THEN Some(deserialize("Paragraph", el))
    ELSE IF Tag(el, "tbl") THEN Some(deserialize("Table", el))
    ELSE IF IsMarker(el) THEN marker_from_xml(el)
    ELSE None

RECURSIVE LastSectionProperty(_, _)
\* `section_property = sp` in the loop over the body: the last one stays
LastSectionProperty(nodes, acc) ==
    IF nodes = <<>> THEN acc
    ELSE LastSectionProperty(Tail(nodes),
            IF Tag(Head(nodes), "sectPr") THEN SectionProperty_deserialize(Head(nodes))
            ELSE acc)

RECURSIVE NotSectPr(_)
NotSectPr(nodes) ==
    IF nodes = <<>> THEN <<>>
    ELSE (IF Tag(Head(nodes), "sectPr") THEN <<>> ELSE <<Head(nodes)>>)
            \o NotSectPr(Tail(nodes))

\* the document of a body's children and its section properties
Document_with(children, section_property) ==
    [kind |-> "Document", children |-> children,
     section_property |-> section_property,
     has_numbering |->
        AnyTrue([i \in DOMAIN children |->
                    IF children[i].kind \in {"Paragraph", "Table"}
                    THEN children[i].has_numbering ELSE FALSE])]

\* the loop over the children of the body
Document_body(nodes) ==
    Document_with(filter_map(NotSectPr(nodes), document_child_from_xml),
                  LastSectionProperty(nodes, SectionProperty_new))

\* the root's tag is not looked at; a root without a body is the default body
Document_deserialize(el) == Document_body(ContentOf(Child(el, {"body", "w:body"})))

header_child_from_xml(el) ==
    IF Tag(el, "p") THEN Some(deserialize("Paragraph", el))
    ELSE IF Tag(el, "tbl") THEN Some(deserialize("Table", el))
    ELSE IF Tag(el, "sdt") THEN Some(deserialize("StructuredDataTag", el))
    ELSE None

\* the flag of a header looks at its paragraphs and tables
Header_with(children) ==
    [kind |-> "Header",
     has_numbering |->
        AnyTrue([i \in DOMAIN children |->
                    IF children[i].kind \in {"Paragraph", "Table"}
                    THEN children[i].has_numbering ELSE FALSE]),
     children |-> children]

Header_deserialize(el) == Header_with(filter_map(el.children, header_child_from_xml))

\* reader entry points: a byte stream without a root element is the only
\* parse failure of a structure whose fields all have defaults
Document_from_xml(m) == IF m = None THEN Err ELSE Ok(Document_deserialize(Unwrap(m)))
TableCell_from_xml(m) == IF m = None THEN Err ELSE Ok(TableCell_deserialize(Unwrap(m)))

\* deserialize_with of the done attribute: the string form of the value
deserialize_done(v) ==
    IF v \in {"1", "true"} THEN Ok(TRUE)
    ELSE IF v \in {"0", "false", ""} THEN Ok(FALSE)
    ELSE Err

\* derived Deserialize of CommentExtended: paragraph_id has no default, so
\* its absence is an error; an error of deserialize_done is the struct's
CommentExtended_deserialize(el) ==
    LET id == Attr(el, {"paraId", "w15:paraId", "paragraphId"})
        d == Attr(el, {"done", "w15:done"})
        done == IF IsSome(d) THEN deserialize_done(Unwrap(d)) ELSE Ok(FALSE)
    IN IF id = None THEN Err
       ELSE IF ~done.ok THEN Err
       ELSE Ok([kind |-> "CommentExtended", paragraph_id |-> Unwrap(id),
                done |-> Unwrap(done.val),
                parent_paragraph_id |->
                    Attr(el, {"paraIdParent", "w15:paraIdParent", "parentParagraphId"})])

CommentExtended_from_xml_quick(m) ==
    IF m = None THEN Err ELSE CommentExtended_deserialize(Unwrap(m))

RECURSIVE dedup_push(_, _)
\* deduped[pos] = ex when the id is already there, else deduped.push(ex)
dedup_push(deduped, ex) ==
    IF deduped = <<>> THEN <<ex>>
    ELSE IF Head(deduped).paragraph_id = ex.paragraph_id THEN <<ex>> \o Tail(deduped)
    ELSE <<Head(deduped)>> \o dedup_push(Tail(deduped), ex)

RECURSIVE dedup_from(_, _)
dedup_from(deduped, children) ==
    IF children = <<>> THEN deduped
    ELSE dedup_from(dedup_push(deduped, Head(children)), Tail(children))
dedup_by_paragraph_id(children) == dedup_from(<<>>, children)

\* derived Deserialize of CommentsExtended: the commentEx children in
\* order; the error of one child is the error of the whole
CommentsExtended_deserialize(el) ==
    LET kids == SelectSeq(el.children, LAMBDA k : k.tag \in {"commentEx", "w15:commentEx"})
        parsed == [i \in DOMAIN kids |-> CommentExtended_deserialize(kids[i])]
    IN IF \E i \in DOMAIN parsed : ~parsed[i].ok THEN Err
       ELSE Ok([kind |-> "CommentsExtended",
                children |-> [i \in DOMAIN parsed |-> Unwrap(parsed[i].val)]])

CommentsExtended_from_xml_quick(m) ==
    IF m = None THEN Err
    ELSE LET parsed == CommentsExtended_deserialize(Unwrap(m))
         IN IF ~parsed.ok THEN Err
            ELSE Ok([kind |-> "CommentsExtended",
                     children |-> dedup_by_paragraph_id(Unwrap(parsed.val).children)])

\* Default for Settings
Settings_default == Settings_new

\* CharacterSpacingValues::from_str
CharacterSpacingValues ==
    {"doNotCompress", "compressPunctuation", "compressPunctuationAndJapaneseKana"}

\* the on/off value of a settings child: on unless the value says 0 or false
settings_on_off(val) ==
    IF IsSome(val)
    THEN to_ascii_lowercase(Trim(Unwrap(val))) \notin {<<"0">>, <<"f", "a", "l", "s", "e">>}
    ELSE TRUE

\* v.replace(['{', '}'], "") and trim; an empty identifier is none
none_if_empty(cs) == IF cs = <<>> THEN None ELSE Some(cs)
normalize_doc_id(raw) ==
    IF IsSome(raw)
    THEN none_if_empty(Trim(SelectSeq(Unwrap(raw), LAMBDA c : c \notin {"{", "}"})))
    ELSE None

\* the variables that have both a name and a value
DocVarOf(node) ==
    IF IsSome(Attr(node, {"name", "w:name"})) /\ IsSome(Attr(node, {"val", "w:val"}))
    THEN Some([name |-> Unwrap(Attr(node, {"name", "w:name"})),
               val |-> Unwrap(Attr(node, {"val", "w:val"}))])
    ELSE None
DocVarsOf(nodes) == Flatten([i \in DOMAIN nodes |-> DocVarOf(nodes[i])])

\* settings.zoom = Zoom::new(val) when the value parses as an integer
read_zoom(settings, value) ==
    IF IsSome(value) /\ IsSome(parse_u32(Unwrap(value)))
    THEN [settings EXCEPT !.zoom = Unwrap(parse_u32(Unwrap(value)))]
    ELSE settings
\* the tab stop is parsed as a float and cast
read_default_tab_stop(settings, val) ==
    IF IsSome(float_as_usize(FloatField(val)))
    THEN [settings EXCEPT !.default_tab_stop = Unwrap(float_as_usize(FloatField(val)))]
    ELSE settings
read_character_spacing_control(settings, val) ==
    IF IsSome(val) /\ Unwrap(val) \in CharacterSpacingValues
    THEN [settings EXCEPT !.character_spacing_control = val]
    ELSE settings

\* one arm of the match over a child of the settings element; acc holds
\* the settings and the variables and identifiers collected so far
settings_child(acc, node) ==
    IF Tag(node, "defaultTabStop")
    THEN [acc EXCEPT !.settings = read_default_tab_stop(@, Attr(node, {"val", "w:val"}))]
    ELSE IF Tag(node, "zoom")
    THEN [acc EXCEPT !.settings =
            read_zoom(@, or_else(Attr(node, {"percent", "w:percent"}),
                                 Attr(node, {"val", "w:val"})))]
    ELSE IF node.tag \in {"docId", "w:docId", "w14:docId", "w15:docId"}
    THEN [acc EXCEPT !.doc_ids = Append(@, node)]
    ELSE IF Tag(node, "docVars")
    THEN [acc EXCEPT !.doc_vars_nested =
            @ \o SelectSeq(node.children, LAMBDA e : Tag(e, "docVar"))]
    ELSE IF Tag(node, "docVar")
    THEN [acc EXCEPT !.doc_vars_direct = Append(@, node)]
    ELSE IF Tag(node, "evenAndOddHeaders")
    THEN [acc EXCEPT !.settings.even_and_odd_headers =
            settings_on_off(Attr(node, {"val", "w:val"}))]
    ELSE IF Tag(node, "adjustLineHeightInTable")
    THEN [acc EXCEPT !.settings.adjust_line_height_in_table =
            settings_on_off(Attr(node, {"val", "w:val"}))]
    ELSE IF Tag(node, "characterSpacingControl")
    THEN [acc EXCEPT !.settings =
            read_character_spacing_control(@, Attr(node, {"val", "w:val"}))]
    ELSE acc

RECURSIVE Settings_children(_, _)
\* the loop over the children of the settings element
Settings_children(acc, nodes) ==
    IF nodes = <<>> THEN acc
    ELSE Settings_children(settings_child(acc, Head(nodes)), Tail(nodes))

\* doc_ids.iter().rev().find_map(..) over one of the three attributes
RECURSIVE last_doc_id(_, _)
last_doc_id(doc_ids, keys) ==
    IF doc_ids = <<>> THEN None
    ELSE or_else(normalize_doc_id(Attr(doc_ids[Len(doc_ids)], keys)),
                 last_doc_id(SubSeq(doc_ids, 1, Len(doc_ids) - 1), keys))

\* the variables nested first, and the identifier by priority w15, plain, w14
Settings_collected(acc) ==
    [acc.settings EXCEPT
        !.doc_vars = DocVarsOf(acc.doc_vars_nested \o acc.doc_vars_direct),
        !.doc_id = or_else(last_doc_id(acc.doc_ids, {"w15:val"}),
                           or_else(last_doc_id(acc.doc_ids, {"val", "w:val"}),
                                   last_doc_id(acc.doc_ids, {"w14:val"})))]

Settings_deserialize(el) ==
    Settings_collected(
        Settings_children([settings |-> Settings_default, doc_vars_nested |-> <<>>,
                           doc_vars_direct |-> <<>>, doc_ids |-> <<>>],
                          el.children))
Settings_from_xml_quick(m) == IF m = None THEN Err ELSE Ok(Settings_deserialize(Unwrap(m)))

\* derived Deserialize of ZoomXml: val, w:val, percent and w:percent name one
\* field, and a field met twice is the error duplicate_field
ZoomXml_deserialize(el) ==
    IF Cardinality({i \in DOMAIN el.attrs :
                        el.attrs[i][1] \in {"val", "w:val", "percent", "w:percent"}}) > 1
    THEN Err
    ELSE Ok([val |-> Attr(el, {"val", "w:val", "percent", "w:percent"})])

\* the value when it parses as an integer, 100 otherwise
zoom_value(val) ==
    IF IsSome(val) THEN OrDefault(parse_u32(Unwrap(val)), 100) ELSE 100
zoom_of(xml) ==
    IF xml.ok THEN Ok([kind |-> "Zoom", val |-> zoom_value(xml.val[1].val)]) ELSE Err
Zoom_deserialize(el) == zoom_of(ZoomXml_deserialize(el))
Hyperlink_from_xml(m) == IF m = None THEN Err ELSE Ok(Hyperlink_deserialize(Unwrap(m)))

-----------------------------------------------------------------------------
(* Generated identifiers: tracked changes and hyperlinks *)

\* the two process-wide counters, before any identifier was generated
FreshIds == [history |-> 0, hyperlink |-> 0]

\* HistoryId::generate(): the next identifier of the process-wide sequence,
\* formatted; the second component is the counter afterwards
generate(c) == [id |-> ToString(c.history), ids |-> [c EXCEPT !.history = @ + 1]]

\* generate_hyperlink_id(): the next number of the process-wide sequence
generate_hyperlink_id(c) ==
    [id |-> c.hyperlink + 1, ids |-> [c EXCEPT !.hyperlink = @ + 1]]

create_hyperlink_rid(id) == "rIdHyperlink" \o ToString(id)

Delete_new ==
    [kind |-> "Delete", author |-> "unnamed", date |-> "1970-01-01T00:00:00Z",
     children |-> <<>>]
Delete_add_run(d, run) == [d EXCEPT !.children = Append(@, run)]

Insert_new(run) ==
    [kind |-> "Insert", author |-> "unnamed", date |-> "1970-01-01T00:00:00Z",
     children |-> <<run>>]

\* Hyperlink::new(value, t): an external link takes its relationship id from
\* the generator when it is constructed
Hyperlink_new(c, value, t) ==
    LET g == generate_hyperlink_id(c)
    IN IF t = "External"
       THEN [entity |-> [kind |-> "Hyperlink",
                         link |-> <<"External", create_hyperlink_rid(g.id)>>,
                         history |-> None, children |-> <<>>],
             ids |-> g.ids]
       ELSE [entity |-> [kind |-> "Hyperlink", link |-> <<"Anchor", value>>,
                         history |-> None, children |-> <<>>],
             ids |-> c]
Hyperlink_add_run(h, run) == [h EXCEPT !.children = Append(@, run)]

\* Delete::build_to: the identifier is generated when the entity is written
Delete_build_to(b, c, d) ==
    LET g == generate(c)
    IN [stream |-> close(add_children(
                      open(b, "w:del", <<<<"w:id", g.id>>, <<"w:author", d.author>>,
                                         <<"w:date", d.date>>>>),
                      d.children)),
        ids |-> g.ids]

Insert_build_to(b, c, i) ==
    LET g == generate(c)
    IN [stream |-> close(add_children(
                      open(b, "w:ins", <<<<"w:id", g.id>>, <<"w:author", i.author>>,
                                         <<"w:date", i.date>>>>),
                      i.children)),
        ids |-> g.ids]

Hyperlink_build_to(b, c, h) ==
    LET hist == ToString(IF IsSome(h.history) THEN Unwrap(h.history) ELSE 1)
        b1 == IF h.link[1] = "Anchor"
              THEN open(b, "w:hyperlink",
                        <<<<"w:anchor", h.link[2]>>, <<"w:history", hist>>>>)
              ELSE open(b, "w:hyperlink",
                        <<<<"r:id", h.link[2]>>, <<"w:history", hist>>>>)
    IN [stream |-> close(add_children(b1, h.children)), ids |-> c]

-----------------------------------------------------------------------------
(* Builder sessions: the state machine of Spec *)

ParagraphInputs ==
    {Paragraph_new, Paragraph_numbering(Paragraph_new),
     Paragraph_add_run(Paragraph_new, Run_add_text(Run_new, "Hello")),
     Paragraph_add_run(Paragraph_new, Run_add_instr_text(Run_new, "TOC"))}
RunInputs == {Run_add_text(Run_new, "Hello"), Run_add_instr_text(Run_new, "TOC")}

NoStream == [out |-> <<>>, n |-> 0, failAt |-> 0, status |-> "none"]

Init ==
    /\ sdt = StructuredDataTag_new
    /\ cell = TableCell_new
    /\ table = None
    /\ doc = Document_new
    /\ calls = 0
    /\ phase = "build"
    /\ subject = None
    /\ stream = NoStream
    /\ back = Err
    /\ stream2 = NoStream
    /\ markup = None
    /\ result = Err
    /\ failAt = 0
    /\ ids = FreshIds /\ threads = <<>>

Building == phase = "build" /\ calls < MaxCalls
Called == calls' = calls + 1
     /\ UNCHANGED <<phase, subject, stream, back, stream2, markup, result, failAt, ids, threads>>

SdtAddParagraph ==
    /\ Building
    /\ \E p \in ParagraphInputs : sdt' = StructuredDataTag_add_paragraph(sdt, p)
    /\ Called /\ UNCHANGED <<cell, table, doc>>

SdtAddRun ==
    /\ Building
    /\ \E r \in RunInputs : sdt' = StructuredDataTag_add_run(sdt, r)
    /\ Called /\ UNCHANGED <<cell, table, doc>>

SdtAddTable ==
    /\ Building /\ IsSome(table)
    /\ sdt' = StructuredDataTag_add_table(sdt, Unwrap(table))
    /\ table' = None
    /\ Called /\ UNCHANGED <<cell, doc>>

SdtAlias ==
    /\ Building /\ sdt.property.alias = None
    /\ sdt' = StructuredDataTag_alias(sdt, "A")
    /\ Called /\ UNCHANGED <<cell, table, doc>>

CellAddParagraph ==
    /\ Building
    /\ \E p \in ParagraphInputs : cell' = TableCell_add_paragraph(cell, p)
    /\ Called /\ UNCHANGED <<sdt, table, doc>>

CellAddStructuredDataTag ==
    /\ Building
    /\ cell' = TableCell_add_structured_data_tag(cell, sdt)
    /\ sdt' = StructuredDataTag_new
    /\ Called /\ UNCHANGED <<table, doc>>

CellAddTable ==
    /\ Building /\ IsSome(table)
    /\ cell' = TableCell_add_table(cell, Unwrap(table))
    /\ table' = None
    /\ Called /\ UNCHANGED <<sdt, doc>>

TableNew ==
    /\ Building /\ table = None
    /\ \/ table' = Some(Table_new(<<TableRow_new(<<cell>>)>>))
       \/ table' = Some(Table_without_borders(<<TableRow_new(<<cell>>)>>))
    /\ cell' = TableCell_new
    /\ Called /\ UNCHANGED <<sdt, doc>>

TableAddRow ==
    /\ Building /\ IsSome(table)
    /\ table' = Some(Table_add_row(Unwrap(table), TableRow_new(<<cell>>)))
    /\ cell' = TableCell_new
    /\ Called /\ UNCHANGED <<sdt, doc>>

DocAddParagraph ==
    /\ Building
    /\ \E p \in ParagraphInputs : doc' = Document_add_paragraph(doc, p)
    /\ Called /\ UNCHANGED <<sdt, cell, table>>

DocAddTable ==
    /\ Building /\ IsSome(table)
    /\ doc' = Document_add_table(doc, Unwrap(table))
    /\ table' = None
    /\ Called /\ UNCHANGED <<sdt, cell>>

DocAddStructuredDataTag ==
    /\ Building
    /\ doc' = Document_add_structured_data_tag(doc, sdt)
    /\ sdt' = StructuredDataTag_new
    /\ Called /\ UNCHANGED <<cell, table>>

DocAddBookmark ==
    /\ Building
    /\ \/ doc' = Document_add_bookmark_start(doc, 1, "bm")
       \/ doc' = Document_add_bookmark_end(doc, 1)
    /\ Called /\ UNCHANGED <<sdt, cell, table>>

DocColumns ==
    /\ Building /\ doc.section_property.columns = 1
    /\ doc' = Document_columns(doc, 2)
    /\ Called /\ UNCHANGED <<sdt, cell, table>>

BuilderNext ==
    \/ SdtAddParagraph \/ SdtAddRun \/ SdtAddTable \/ SdtAlias
    \/ CellAddParagraph \/ CellAddStructuredDataTag \/ CellAddTable
    \/ TableNew \/ TableAddRow
    \/ DocAddParagraph \/ DocAddTable \/ DocAddStructuredDataTag
    \/ DocAddBookmark \/ DocColumns

\* doc.build(): the finished document is written to a sink that never fails
DocBuild ==
    /\ phase = "build"
    /\ subject' = Some(doc)
    /\ stream' = Document_build_to(NewStream(0), doc)
    /\ phase' = "written"
    /\ UNCHANGED <<sdt, cell, table, doc, calls, back, stream2, markup, result, failAt, ids, threads>>

\* cell.build(): a cell written on its own, as the unit tests of the cell do
CellBuild ==
    /\ phase = "build"
    /\ subject' = Some(cell)
    /\ stream' = TableCell_build_to(NewStream(0), cell)
    /\ phase' = "written"
    /\ UNCHANGED <<sdt, cell, table, doc, calls, back, stream2, markup, result, failAt, ids, threads>>

\* Document::from_xml_quick on the markup just written
DocFromXml ==
    /\ phase = "written" /\ stream.status = "ok" /\ Unwrap(subject).kind = "Document"
    /\ back' = Document_from_xml(Tokenize(stream.out))
    /\ phase' = "read"
    /\ UNCHANGED <<sdt, cell, table, doc, calls, subject, stream, stream2, markup,
                   result, failAt, ids, threads>>

\* quick_xml::de::from_str::<TableCell> on the markup just written
CellFromXml ==
    /\ phase = "written" /\ stream.status = "ok" /\ Unwrap(subject).kind = "TableCell"
    /\ back' = TableCell_from_xml(Tokenize(stream.out))
    /\ phase' = "read"
    /\ UNCHANGED <<sdt, cell, table, doc, calls, subject, stream, stream2, markup,
                   result, failAt, ids, threads>>

\* the entity read back is written again
Rebuild ==
    /\ phase = "read" /\ back.ok
    /\ stream2' = build(Unwrap(back.val))
    /\ phase' = "rewritten"
    /\ UNCHANGED <<sdt, cell, table, doc, calls, subject, stream, back, markup,
                   result, failAt, ids, threads>>

Next == BuilderNext \/ DocBuild \/ CellBuild \/ DocFromXml \/ CellFromXml \/ Rebuild

Spec == Init /\ [][Next]_vars

\* C4: after any sequence of builder calls the cached has_numbering flag of
\* the table, cell, structured tag and document (and of every container
\* nested in them) is true exactly when some paragraph in its subtree
\* references a numbering definition.
RECURSIVE FlagsExact(_)
FlagsExact(e) ==
    /\ e.kind \in {"Table", "TableRow", "TableCell", "StructuredDataTag", "Document"}
          => (e.has_numbering <=> SubtreeHasNumbering(e))
    /\ \A i \in DOMAIN Kids(e) : FlagsExact(Kids(e)[i])

C4_HasNumberingExact ==
    /\ FlagsExact(sdt) /\ FlagsExact(cell) /\ FlagsExact(doc)
    /\ IsSome(table) => FlagsExact(Unwrap(table))

-----------------------------------------------------------------------------
(* Round trips of built entities *)

Written == phase \in {"written", "read", "rewritten"}
ReadBack == phase \in {"read", "rewritten"}
SubjectIs(kind) == subject # None /\ Unwrap(subject).kind = kind

RECURSIVE NoFlags(_)
\* the entity with the cached has_numbering flag of every container cleared;
\* a paragraph's own numbering reference is a field the writer emits
NoFlags(e) ==
    IF e.kind = "Table"
    THEN [e EXCEPT !.has_numbering = FALSE, !.rows = [i \in DOMAIN @ |-> NoFlags(@[i])]]
    ELSE IF e.kind = "TableRow"
    THEN [e EXCEPT !.has_numbering = FALSE, !.cells = [i \in DOMAIN @ |-> NoFlags(@[i])]]
    ELSE IF e.kind \in {"TableCell", "StructuredDataTag", "Document"}
    THEN [e EXCEPT !.has_numbering = FALSE,
                   !.children = [i \in DOMAIN @ |-> NoFlags(@[i])]]
    ELSE e

\* C1: a document built by builder calls and written is read back as a
\* document equal to the original on every field the writer emits, the
\* cached has_numbering flags set aside.
C1_RoundTrip ==
    (ReadBack /\ SubjectIs("Document"))
        => back.ok /\ NoFlags(Unwrap(back.val)) = NoFlags(Unwrap(subject))

\* C2: writing the document read back from the written markup gives the
\* markup of the first write again, event for event.
C2_Idempotent ==
    (phase = "rewritten" /\ SubjectIs("Document"))
        => stream2.status = "ok" /\ stream2.out = stream.out

CountKind(children, kind) ==
    Cardinality({i \in DOMAIN children : children[i].kind = kind})

\* C3: no child a builder added to a container is dropped when the written
\* markup is read back: the container read back has, of every kind, at
\* least as many children as the container written.
C3_NoChildDropped ==
    (ReadBack /\ subject # None)
        => /\ back.ok
           /\ \A i \in DOMAIN Unwrap(subject).children :
                 CountKind(Unwrap(back.val).children, Unwrap(subject).children[i].kind)
                    >= CountKind(Unwrap(subject).children, Unwrap(subject).children[i].kind)

\* the markup of Paragraph::new()
EmptyParagraph == Unwrap(Tokenize(build(Paragraph_new).out))
\* the content elements of the cell element just written
WrittenCellContent == Value(Unwrap(Tokenize(stream.out)), {"w:tcPr"})
CellWritten == Written /\ SubjectIs("TableCell")

\* C5 (as the code has it): a written cell without children holds exactly
\* one empty paragraph; a cell whose only child is a table holds the table
\* followed by one empty paragraph; any other cell holds its children and
\* nothing else; so no written cell is content-less.
C5_CellFiller ==
    CellWritten =>
        LET kids == Unwrap(subject).children
            content == WrittenCellContent
        IN /\ kids = <<>> => content = <<EmptyParagraph>>
           /\ (Len(kids) = 1 /\ kids[1].kind = "Table")
                 => /\ Len(content) = 2
                    /\ content[1].tag = "w:tbl"
                    /\ content[2] = EmptyParagraph
           /\ (kids # <<>> /\ ~(Len(kids) = 1 /\ kids[1].kind = "Table"))
                 => Len(content) = Len(kids)
           /\ content # <<>>

C5_Witness ==
    /\ CellWritten
    /\ Unwrap(subject).children = <<>>
    /\ WrittenCellContent = <<EmptyParagraph>>

\* C5 as stated: a written cell none of whose children is a paragraph
\* holds exactly one empty paragraph.
C5_AsStated ==
    (CellWritten /\ CountKind(Unwrap(subject).children, "Paragraph") = 0)
        => Cardinality({i \in DOMAIN WrittenCellContent :
                          WrittenCellContent[i] = EmptyParagraph}) = 1

-----------------------------------------------------------------------------
(* SpecRead: the readers on markup drawn from bounded sets *)

SeqsUpTo(S, n) == UNION {[1..k -> S] : k \in 0..n}

RunEl == Unwrap(Tokenize(build(Run_add_text(Run_new, "Hello")).out))
ParagraphEl == Unwrap(Tokenize(build(Paragraph_new).out))
BookmarkEl == Unwrap(Tokenize(build(BookmarkStart_new(1, "bm")).out))
SdtEl == Unwrap(Tokenize(build(StructuredDataTag_new).out))
UnknownEl == Element("w:unknown", <<>>, <<>>)
NamelessBookmarkEl == Element("w:bookmarkStart", <<<<"w:id", "1">>>>, <<>>)
\* the elements the writers make of the entities
Built(entities) == {Unwrap(Tokenize(build(e).out)) : e \in entities}
ContainerKids ==
    Built({Run_add_text(Run_new, "Hello"), Paragraph_new, BookmarkStart_new(1, "bm"),
           StructuredDataTag_new})
    \cup {UnknownEl, NamelessBookmarkEl}

CommentExAttrs ==
    {<<>>,
     <<<<"w15:paraId", "1">>>>,
     <<<<"w15:paraId", "1">>, <<"w15:done", "1">>>>,
     <<<<"w15:paraId", "2">>, <<"w15:done", "0">>>>,
     <<<<"w15:paraId", "1">>, <<"w15:done", "maybe">>>>,
     <<<<"w15:done", "1">>>>}
CommentExEls == {Element("w15:commentEx", a, <<>>) : a \in CommentExAttrs}
CommentExKids ==
    {Element("w15:commentEx", a, <<>>) :
        a \in {<<<<"w15:paraId", "1">>, <<"w15:done", "1">>>>,
               <<<<"w15:paraId", "1">>>>,
               <<<<"w15:paraId", "2">>, <<"w15:done", "maybe">>>>}}
SettingsKids ==
    {Element("w:zoom", <<<<"w:percent", <<"2">>>>>>, <<>>),
     Element("w:zoom", <<<<"w:val", <<"x">>>>>>, <<>>),
     Element("w:evenAndOddHeaders", <<>>, <<>>)}

ContainerInputs(contents) ==
    {Some(Element(tag, <<>>, kids)) : tag \in {"w:hyperlink", "w:tc"}, kids \in contents}
    \cup {Some(Element("w:document", <<>>, <<Element("w:body", <<>>, kids)>>)) :
            kids \in contents}

ReadInputs ==
    {None}
    \cup ContainerInputs(SeqsUpTo(ContainerKids, MaxKids))
    \cup {Some(el) : el \in CommentExEls}
    \cup {Some(Element("w15:commentsEx", <<>>, kids)) :
            kids \in SeqsUpTo(CommentExKids, MaxKids)}
    \cup {Some(Element("w:settings", <<>>, kids)) :
            kids \in SeqsUpTo(SettingsKids, MaxKids)}

InitRead ==
    /\ sdt = StructuredDataTag_new
    /\ cell = TableCell_new
    /\ table = None
    /\ doc = Document_new
    /\ calls = 0
    /\ phase = "input"
    /\ subject = None
    /\ stream = NoStream
    /\ back = Err
    /\ stream2 = NoStream
    /\ markup \in ReadInputs
    /\ result = Err
    /\ failAt = 0
    /\ ids = FreshIds /\ threads = <<>>

\* one call of a reader entry point on the input, whatever its root is
Read(reader, res) ==
    /\ phase = "input"
    /\ result' = res
    /\ phase' = reader
    /\ UNCHANGED <<sdt, cell, table, doc, calls, subject, stream, back, stream2,
                   markup, failAt, ids, threads>>

ReadDocument == Read("Document", Document_from_xml(markup))
ReadTableCell == Read("TableCell", TableCell_from_xml(markup))
ReadHyperlink == Read("Hyperlink", Hyperlink_from_xml(markup))
ReadSettings == Read("Settings", Settings_from_xml_quick(markup))
ReadCommentExtended == Read("CommentExtended", CommentExtended_from_xml_quick(markup))
ReadCommentsExtended == Read("CommentsExtended", CommentsExtended_from_xml_quick(markup))

NextRead ==
    \/ ReadDocument \/ ReadTableCell \/ ReadHyperlink
    \/ ReadSettings \/ ReadCommentExtended \/ ReadCommentsExtended

SpecRead == InitRead /\ [][NextRead]_vars

\* the root tag of the markup each reader is meant for
ExpectedRoot ==
    [Document |-> "w:document", TableCell |-> "w:tc", Hyperlink |-> "w:hyperlink",
     Settings |-> "w:settings", CommentExtended |-> "w15:commentEx",
     CommentsExtended |-> "w15:commentsEx"]
ReadDone == phase \in DOMAIN ExpectedRoot
RootMatches == ReadDone /\ markup # None /\ Unwrap(markup).tag = ExpectedRoot[phase]

\* C6: every table cell the reader produces has at least one child.
C6_ReadCellNeverEmpty ==
    (phase = "TableCell" /\ RootMatches)
        => result.ok /\ Len(Unwrap(result.val).children) >= 1

Count(kids, el) == Cardinality({i \in DOMAIN kids : kids[i] = el})
\* one well-formed child, and beside it only unrecognized elements and
\* bookmark starts without a name, at least one of each
OneGoodChild(kids, good) ==
    /\ Count(kids, good) = 1
    /\ Count(kids, UnknownEl) >= 1
    /\ Count(kids, NamelessBookmarkEl) >= 1
    /\ \A i \in DOMAIN kids : kids[i] \in {good, UnknownEl, NamelessBookmarkEl}

\* C7: a hyperlink holding one well-formed run, an unrecognized element
\* and a bookmark start without a name is read without error and has
\* exactly one child, the run; likewise a document body holding one
\* paragraph beside the two has exactly one child, the paragraph.
C7_UnknownChildTolerance ==
    /\ (phase = "Hyperlink" /\ RootMatches /\ OneGoodChild(Unwrap(markup).children, RunEl))
          => /\ result.ok
             /\ Unwrap(result.val).children = <<Run_add_text(Run_new, "Hello")>>
    /\ (phase = "Document" /\ RootMatches
          /\ OneGoodChild(Unwrap(markup).children[1].children, ParagraphEl))
          => /\ result.ok
             /\ Unwrap(result.val).children = <<Paragraph_new>>

C7_Witness ==
    /\ phase = "Hyperlink"
    /\ markup = Some(Element("w:hyperlink", <<>>, <<RunEl, UnknownEl, NamelessBookmarkEl>>))
    /\ result.ok
    /\ Len(Unwrap(result.val).children) = 1

\* C8: with the expected root present, no reader fails: an unparsable
\* attribute value, an unknown child or a missing sub-field is recovered
\* by a default or by dropping the child.
C8_ReadNeverFails == RootMatches => result.ok

\* C9: a reader given markup without a root element, or with a root of
\* another tag than its entity's, returns a parse error.
C9_WrongRootFails == (ReadDone /\ ~RootMatches) => ~result.ok

-----------------------------------------------------------------------------
(* SpecWrite: the writers over a sink that fails at a chosen write *)

WriteCells ==
    {TableCell_new,
     TableCell_add_paragraph(TableCell_new, Paragraph_numbering(Paragraph_new)),
     TableCell_add_table(TableCell_new, Table_new(<<TableRow_new(<<TableCell_new>>)>>)),
     TableCell_add_structured_data_tag(TableCell_new, StructuredDataTag_new)}

WriteDocs ==
    {Document_new,
     Document_add_paragraph(Document_new,
        Paragraph_add_run(Paragraph_new, Run_add_text(Run_new, "Hello"))),
     Document_add_bookmark_end(Document_add_bookmark_start(Document_new, 1, "bm"), 1),
     Document_add_structured_data_tag(Document_new,
        StructuredDataTag_add_run(StructuredDataTag_new, Run_add_tab(Run_new))),
     Document_title_pg(Document_add_table(Document_new,
        Table_without_borders(<<TableRow_new(<<TableCell_new>>)>>)))}

InitWrite ==
    /\ sdt = StructuredDataTag_new
    /\ cell \in WriteCells
    /\ table = None
    /\ doc \in WriteDocs
    /\ calls = 0
    /\ phase = "build"
    /\ subject = None
    /\ stream = NoStream
    /\ back = Err
    /\ stream2 = NoStream
    /\ markup = None
    /\ result = Err
    /\ failAt \in 0..MaxFail
    /\ ids = FreshIds /\ threads = <<>>

\* doc.build_to(stream) on the failing sink
WriteDocument ==
    /\ phase = "build"
    /\ subject' = Some(doc)
    /\ stream' = Document_build_to(NewStream(failAt), doc)
    /\ phase' = "written"
    /\ UNCHANGED <<sdt, cell, table, doc, calls, back, stream2, markup, result, failAt, ids, threads>>

\* cell.build_to(stream) on the failing sink
WriteTableCell ==
    /\ phase = "build"
    /\ subject' = Some(cell)
    /\ stream' = TableCell_build_to(NewStream(failAt), cell)
    /\ phase' = "written"
    /\ UNCHANGED <<sdt, cell, table, doc, calls, back, stream2, markup, result, failAt, ids, threads>>

NextWrite == WriteDocument \/ WriteTableCell

SpecWrite == InitWrite /\ [][NextWrite]_vars

\* the same write on a sink that never fails
FaultFree == build(Unwrap(subject))

-----------------------------------------------------------------------------
(* SpecUnsupported: writing runs that hold variants without a writer *)

\* Run children, among them the variants whose writer arm is todo!() or
\* unimplemented!()
UnsupportedKids ==
    {[kind |-> "Text", text |-> "Hello"],
     [kind |-> "Shape"],
     [kind |-> "Drawing", drawing |-> Drawing_text_box(Drawing_new, TextBox_new)],
     [kind |-> "Drawing", drawing |-> Drawing_new],
     [kind |-> "Drawing", drawing |-> Drawing_pic(Drawing_new, Pic_new)],
     [kind |-> "Drawing", drawing |->
        Drawing_pic(Drawing_new, Pic_overlapping(Pic_floating(Pic_new)))]}

UnsupportedDocs ==
    {Document_add_paragraph(Document_new,
        Paragraph_add_run(Paragraph_new, [Run_new EXCEPT !.children = ks])) :
     ks \in SeqsUpTo(UnsupportedKids, 2)}

InitUnsupported ==
    /\ sdt = StructuredDataTag_new
    /\ cell = TableCell_new
    /\ table = None
    /\ doc \in UnsupportedDocs
    /\ calls = 0
    /\ phase = "build"
    /\ subject = None
    /\ stream = NoStream
    /\ back = Err
    /\ stream2 = NoStream
    /\ markup = None
    /\ result = Err
    /\ failAt \in 0..MaxFail
    /\ ids = FreshIds /\ threads = <<>>

NextUnsupported == WriteDocument

SpecUnsupported == InitUnsupported /\ [][NextUnsupported]_vars

IsPicDrawing(c) ==
    c.kind = "Drawing" /\ IsSome(c.drawing.data) /\ Unwrap(c.drawing.data).kind = "Pic"
\* a run child whose writer arm is not implemented
NoWriter(c) == c.kind = "Shape" \/ (c.kind = "Drawing" /\ ~IsPicDrawing(c))
WrittenRunKids == Unwrap(subject).children[1].children[1].children
FirstNoWriter ==
    CHOOSE i \in DOMAIN WrittenRunKids :
        NoWriter(WrittenRunKids[i]) /\ \A j \in 1..(i - 1) : ~NoWriter(WrittenRunKids[j])
OpenCount(out, tag) == Cardinality({i \in DOMAIN out : out[i].t = "open" /\ out[i].tag = tag})

\* C11: writing a model that holds a variant without a writer (a shape run
\* child, a text-box drawing) ends in a not-implemented failure, and no
\* markup of that variant reaches the sink: the only drawing elements in
\* the output are those of the pictures written before it.
C11_UnsupportedFailsWithoutMarkup ==
    (phase = "written" /\ \E i \in DOMAIN WrittenRunKids : NoWriter(WrittenRunKids[i])) =>
        /\ stream.status \in {"panic", "err"}
        /\ failAt = 0 => stream.status = "panic"
        /\ OpenCount(stream.out, "w:drawing") =
             Cardinality({j \in 1..(FirstNoWriter - 1) : IsPicDrawing(WrittenRunKids[j])})

-----------------------------------------------------------------------------
(* SpecSection: the section property writer over every choice of populated
   optional fields *)

OptionalFields ==
    {"doc_grid", "header", "first_header", "even_header", "footer", "first_footer",
     "even_footer", "page_num_type", "text_direction", "section_type", "title_pg"}

With(cond, sp, built) == IF cond THEN built ELSE sp

\* the section property a caller builds when it populates the fields in set
sp_doc_grid(s, on) == With(on, s, SectionProperty_doc_grid(s, DocGrid_with_empty))
sp_header(s, on) == With(on, s, SectionProperty_header(s, "rId1"))
sp_first_header(s, on) == With(on, s, SectionProperty_first_header(s, "rId2"))
sp_even_header(s, on) == With(on, s, SectionProperty_even_header(s, "rId3"))
sp_footer(s, on) == With(on, s, SectionProperty_footer(s, "rId4"))
sp_first_footer(s, on) == With(on, s, SectionProperty_first_footer(s, "rId5"))
sp_even_footer(s, on) == With(on, s, SectionProperty_even_footer(s, "rId6"))
sp_page_num_type(s, on) ==
    With(on, s, SectionProperty_page_num_type(s, [PageNumType_new EXCEPT !.start = Some(1)]))
sp_text_direction(s, on) == With(on, s, SectionProperty_text_direction(s, "tbRl"))
sp_section_type(s, on) == With(on, s, SectionProperty_section_type(s, "continuous"))
sp_title_pg(s, on) == With(on, s, SectionProperty_title_pg(s))

SectionPropertyOf(set) ==
    LET s1 == sp_doc_grid(SectionProperty_new, "doc_grid" \in set)
        s2 == sp_header(s1, "header" \in set)
        s3 == sp_first_header(s2, "first_header" \in set)
        s4 == sp_even_header(s3, "even_header" \in set)
        s5 == sp_footer(s4, "footer" \in set)
        s6 == sp_first_footer(s5, "first_footer" \in set)
        s7 == sp_even_footer(s6, "even_footer" \in set)
        s8 == sp_page_num_type(s7, "page_num_type" \in set)
        s9 == sp_text_direction(s8, "text_direction" \in set)
        s10 == sp_section_type(s9, "section_type" \in set)
    IN sp_title_pg(s10, "title_pg" \in set)

InitSection ==
    /\ sdt = StructuredDataTag_new
    /\ cell = TableCell_new
    /\ table = None
    /\ \E set \in SUBSET OptionalFields :
          doc = [Document_new EXCEPT !.section_property = SectionPropertyOf(set)]
    /\ calls = 0
    /\ phase = "build"
    /\ subject = None
    /\ stream = NoStream
    /\ back = Err
    /\ stream2 = NoStream
    /\ markup = None
    /\ result = Err
    /\ failAt \in {0, MaxFail}
    /\ ids = FreshIds /\ threads = <<>>

\* section_property.build_to(stream)
WriteSectionProperty ==
    /\ phase = "build"
    /\ subject' = Some(doc.section_property)
    /\ stream' = SectionProperty_build_to(NewStream(failAt), doc.section_property)
    /\ phase' = "written"
    /\ UNCHANGED <<sdt, cell, table, doc, calls, back, stream2, markup, result, failAt, ids, threads>>

NextSection == WriteSectionProperty \/ WriteDocument

SpecSection == InitSection /\ [][NextSection]_vars

\* the order the claim names (header references before footer references)
SectionOrder ==
    <<"w:pgSz", "w:pgMar", "w:cols", "w:docGrid", "w:headerReference",
      "w:footerReference", "w:pgNumType", "w:textDirection", "w:type", "w:titlePg">>
SectionRank(tag) == CHOOSE i \in DOMAIN SectionOrder : SectionOrder[i] = tag
IsSectionChild(ev) ==
    ev.t = "open" /\ \E i \in DOMAIN SectionOrder : SectionOrder[i] = ev.tag
\* the children of the section property element, as written
SectionChildren == SelectSeq(stream.out, IsSectionChild)
\* how many children the populated fields of the written section call for
PopulatedCount(sp) ==
    3 + Cardinality({f \in {"doc_grid", "header_reference", "first_header_reference",
                           "even_header_reference", "footer_reference",
                           "first_footer_reference", "even_footer_reference",
                           "page_num_type", "section_type"} : IsSome(sp[f])})
      + (IF sp.text_direction # "lrTb" THEN 1 ELSE 0) + (IF sp.title_pg THEN 1 ELSE 0)

\* C12: whatever optional fields are populated, a written section property
\* holds one child per populated field, in the order page size, page margin,
\* columns, doc grid, header references, footer references, page numbering,
\* text direction, section type, title-page flag.
C12_SectionChildOrder ==
    (phase = "written" /\ stream.status = "ok") =>
        /\ Len(SectionChildren) = PopulatedCount(doc.section_property)
        /\ \A i, j \in DOMAIN SectionChildren :
              i < j => /\ SectionRank(SectionChildren[i].tag) <= SectionRank(SectionChildren[j].tag)
                       /\ SectionRank(SectionChildren[i].tag) = SectionRank(SectionChildren[j].tag)
                            => SectionChildren[i].tag \in {"w:headerReference", "w:footerReference"}

C12_Witness ==
    /\ phase = "written"
    /\ stream.status = "ok"
    /\ doc.section_property.text_direction = "tbRl"
    /\ IsSome(doc.section_property.footer_reference)
    /\ IsSome(doc.section_property.doc_grid)
    /\ Len(SectionChildren) > 5
    /\ SectionChildren[Len(SectionChildren)].tag = "w:titlePg"

-----------------------------------------------------------------------------
(* SpecAttr: the readers of property blocks and of attribute values *)

\* toggles and other children of a run-properties block
BoldEl(val) == Element("w:b", val, <<>>)
RunPropertyKids ==
    {BoldEl(<<>>),
     BoldEl(<<<<"w:val", <<"0">>>>>>),
     BoldEl(<<<<"w:val", <<"1">>>>>>),
     BoldEl(<<<<"w:val", <<" ", "F", "a", "l", "s", "e">>>>>>),
     Element("w:i", <<<<"w:val", <<"0">>>>>>, <<>>),
     Element("w:sz", <<<<"w:val", <<"2", "4">>>>>>, <<>>),
     UnknownEl}

RunInputsXml ==
    {Element("w:r", <<>>, <<TextNode("Hello")>>)}
    \cup {Element("w:r", <<>>, <<Element("w:rPr", <<>>, kids)>>) :
            kids \in SeqsUpTo(RunPropertyKids, MaxKids)}

\* attribute values: numbers in several notations, and values that are
\* no number
NumericValues ==
    {<<"2", "5", "4">>, <<"1", "2", ".", "7", "p", "t">>, <<" ", "1", "2", ".", "7", "p", "t", " ">>, <<"1", "2", ".", "7">>, <<"-", "5">>, <<"1", "e", "2">>}
NonNumericValues ==
    {<<>>, <<"a", "b", "c">>, <<"p", "t">>, <<"1", "2", ",", "7">>, <<"N", "a", "N">>}
RawValues == NumericValues \cup NonNumericValues \cup {<<"i", "n", "f">>}

SectionInputsXml ==
    {Element("w:sectPr", <<>>,
        <<Element("w:pgMar", <<<<"w:top", top>>, <<"w:left", left>>>>, <<>>)>>) :
     top \in RawValues, left \in RawValues}
    \cup {Element("w:sectPr", <<>>,
            <<Element("w:pgSz", <<<<"w:w", w>>>>, <<>>),
              Element("w:pgNumType", <<<<"w:start", w>>>>, <<>>),
              Element("w:docGrid", <<<<"w:linePitch", w>>>>, <<>>)>>) : w \in RawValues}

TabStopInputsXml ==
    {Element("w:defaultTabStop", <<>>, <<>>)}
    \cup {Element("w:defaultTabStop", <<<<"w:val", v>>>>, <<>>) : v \in RawValues}

LevelKids ==
    {Element("w:start", <<<<"w:val", v>>>>, <<>>) : v \in {<<"3">>, <<"a", "b", "c">>, <<"N", "a", "N">>}}
    \cup {Element("w:start", <<>>, <<>>),
          Element("w:numFmt", <<<<"w:val", "bullet">>>>, <<>>),
          Element("w:lvlJc", <<<<"w:val", "right">>>>, <<>>),
          Element("w:lvlText", <<<<"w:val", "%1.">>>>, <<>>)}
\* w:lvl is a struct of named fields: each child element occurs at most once
LevelInputsXml ==
    {Element("w:abstractNum", <<<<"w:abstractNumId", <<"0">>>>>>,
        <<Element("w:lvl", ilvl, kids)>>) :
     ilvl \in {<<>>, <<<<"w:ilvl", <<"1">>>>>>, <<<<"w:ilvl", <<"a", "b", "c">>>>>>},
     kids \in {ks \in SeqsUpTo(LevelKids, MaxKids) :
                 \A i, j \in DOMAIN ks : i # j => ks[i].tag # ks[j].tag}}

AttrInputs ==
    {Some(el) : el \in RunInputsXml \cup SectionInputsXml \cup TabStopInputsXml
                       \cup LevelInputsXml}

InitAttr ==
    /\ sdt = StructuredDataTag_new
    /\ cell = TableCell_new
    /\ table = None
    /\ doc = Document_new
    /\ calls = 0
    /\ phase = "input"
    /\ subject = None
    /\ stream = NoStream
    /\ back = Err
    /\ stream2 = NoStream
    /\ markup \in AttrInputs
    /\ result = Err
    /\ failAt = 0
    /\ ids = FreshIds /\ threads = <<>>

\* quick_xml::de::from_str::<Run>
ReadRun ==
    /\ Unwrap(markup).tag = "w:r"
    /\ Read("Run", Ok(Run_deserialize(Unwrap(markup))))

\* quick_xml::de::from_str::<SectionProperty>
ReadSectionProperty ==
    /\ Unwrap(markup).tag = "w:sectPr"
    /\ Read("SectionProperty", Ok(SectionProperty_deserialize(Unwrap(markup))))

\* quick_xml::de::from_str::<DefaultTabStop>
ReadDefaultTabStop ==
    /\ Unwrap(markup).tag = "w:defaultTabStop"
    /\ Read("DefaultTabStop", Ok(DefaultTabStop_deserialize(Unwrap(markup))))

\* quick_xml::de::from_str::<AbstractNumbering>
ReadAbstractNumbering ==
    /\ Unwrap(markup).tag = "w:abstractNum"
    /\ Read("AbstractNumbering", Ok(AbstractNumbering_deserialize(Unwrap(markup))))

NextAttr == ReadRun \/ ReadSectionProperty \/ ReadDefaultTabStop \/ ReadAbstractNumbering

SpecAttr == InitAttr /\ [][NextAttr]_vars

\* the bold toggles of the run-properties block that was read, in markup order
BoldToggles ==
    LET rPr == Child(Unwrap(markup), {"rPr", "w:rPr"})
    IN IF IsSome(rPr) THEN SelectSeq(Unwrap(rPr).children, LAMBDA e : Tag(e, "b")) ELSE <<>>
ToggleValue(el) == parse_on_off(Attr(el, {"val", "w:val"}))

\* C13: a run-properties block that holds several bold toggles reads as the
\* value of the first of them, whatever the later ones say.
C13_FirstToggleWins ==
    (phase = "Run" /\ BoldToggles # <<>>) =>
        /\ result.ok
        /\ result.val[1].run_property.bold = Some(ToggleValue(BoldToggles[1]))

C13_Witness ==
    /\ phase = "Run"
    /\ Len(BoldToggles) >= 2
    /\ ToggleValue(BoldToggles[1]) # ToggleValue(BoldToggles[Len(BoldToggles)])
    /\ result.val[1].run_property.bold = Some(ToggleValue(BoldToggles[1]))
    /\ ~ToggleValue(BoldToggles[1])

\* the raw value of attribute key on the child tag of the markup that was read
RawOf(tag, key) ==
    LET c == Child(Unwrap(markup), {tag})
    IN IF IsSome(c) THEN Attr(Unwrap(c), {key}) ELSE None

\* C14: a margin given in points as "12.7pt" is read as the same distance,
\* 254 twentieths of a point, as the margin given as "254".
C14_PointsReadAsTwips ==
    (phase = "SectionProperty" /\ RawOf("w:pgMar", "w:top") \in {Some(<<"1", "2", ".", "7", "p", "t">>), Some(<<"2", "5", "4">>)}) =>
        /\ result.ok
        /\ result.val[1].page_margin.top = 254

C14_Witness ==
    /\ phase = "SectionProperty"
    /\ RawOf("w:pgMar", "w:top") = Some(<<"1", "2", ".", "7", "p", "t">>)
    /\ RawOf("w:pgMar", "w:left") = Some(<<"2", "5", "4">>)
    /\ result.val[1].page_margin.top = result.val[1].page_margin.left
    /\ result.val[1].page_margin.top = 254

\* the fields read from a numeric attribute of the markup, each with its raw
\* value and its default
NumericFields ==
    IF phase = "SectionProperty"
    THEN {<<RawOf("w:pgMar", "w:top"), result.val[1].page_margin.top, PageMargin_new.top>>,
          <<RawOf("w:pgMar", "w:left"), result.val[1].page_margin.left, PageMargin_new.left>>,
          <<RawOf("w:pgSz", "w:w"), result.val[1].page_size.w, PageSize_new.w>>}
    ELSE IF phase = "DefaultTabStop"
    THEN {<<Attr(Unwrap(markup), {"w:val"}), result.val[1].val, 840>>}
    ELSE IF phase = "AbstractNumbering"
    THEN {<<RawOf("w:lvl", "w:ilvl"), result.val[1].levels[1].level, 0>>}
    ELSE {}

\* C15: a value that is no number on a numeric attribute is never a parse
\* error, and the field it belongs to takes its default.
C15_NonNumericTakesDefault ==
    phase \in {"SectionProperty", "DefaultTabStop", "AbstractNumbering"} =>
        /\ result.ok
        /\ \A f \in NumericFields :
              (IsSome(f[1]) /\ Unwrap(f[1]) \in NonNumericValues) => f[2] = f[3]

\* the level element of the markup, and whether it holds a child of a name
LevelEl == Unwrap(Child(Unwrap(markup), {"w:lvl"}))
LevelHas(name) == IsSome(Child(LevelEl, {name, "w:" \o name}))

\* C16: a numbering level without a start reads with start 1, without a
\* number format with "decimal", without a justification with "left"; a run
\* without a properties element reads with a run-property block that is
\* present and has no field set.
C16_MissingTakesDefault ==
    /\ phase = "AbstractNumbering" =>
          /\ result.ok
          /\ ~LevelHas("start") => result.val[1].levels[1].start = 1
          /\ ~LevelHas("numFmt") => result.val[1].levels[1].format = "decimal"
          /\ ~LevelHas("lvlJc") => result.val[1].levels[1].jc = "left"
    /\ (phase = "Run" /\ ~IsSome(Child(Unwrap(markup), {"rPr", "w:rPr"}))) =>
          /\ result.ok
          /\ result.val[1].run_property = RunProperty_new

C16_Witness ==
    /\ phase = "AbstractNumbering"
    /\ ~LevelHas("start") /\ ~LevelHas("numFmt") /\ ~LevelHas("lvlJc")
    /\ LevelHas("lvlText")
    /\ result.val[1].levels[1].start = 1
    /\ result.val[1].levels[1].format = "decimal"
    /\ result.val[1].levels[1].jc = "left"

-----------------------------------------------------------------------------
(* SpecSdt: nested structured data tags, read and written back *)

SdtAliases == {None, Some("Outer"), Some("Middle"), Some("Inner")}

\* a structured data tag element with an alias and content
SdtXml(alias, kids) ==
    Element("w:sdt", <<>>,
        <<Element("w:sdtPr", <<>>,
             IF IsSome(alias)
             THEN <<Element("w:alias", <<<<"w:val", Unwrap(alias)>>>>, <<>>)>> ELSE <<>>),
          Element("w:sdtContent", <<>>, kids)>>)

\* what stands before a nested tag in the content of its parent
SdtSiblings == {<<>>, <<ParagraphEl>>}

Depth1Of(sibs) == {SdtXml(a, ks) : a \in SdtAliases, ks \in sibs}
Depth2Of(d1, sibs) ==
    {SdtXml(a, ks \o <<in>>) : a \in SdtAliases, ks \in sibs, in \in d1}
Depth3Of(d2) ==
    {SdtXml(a, <<in>>) : a \in SdtAliases \ {None},
                         in \in {e \in d2 : e.children[2].children[1].tag = "w:sdt"}}
SdtDepth1 == Depth1Of(SdtSiblings)
SdtDepth2 == Depth2Of(SdtDepth1, SdtSiblings)
SdtDepth3 == Depth3Of(SdtDepth2)
UpTo2(d1, sibs) == [d1 |-> d1, d2 |-> Depth2Of(d1, sibs)]
UpTo3(d) == d.d1 \cup d.d2 \cup Depth3Of(d.d2)
SdtOver(sibs) == UpTo3(UpTo2(Depth1Of(sibs), sibs))
SdtInputs == {Some(el) : el \in SdtOver(SdtSiblings)}

InitSdt ==
    /\ sdt = StructuredDataTag_new
    /\ cell = TableCell_new
    /\ table = None
    /\ doc = Document_new
    /\ calls = 0
    /\ phase = "input"
    /\ subject = None
    /\ stream = NoStream
    /\ back = Err
    /\ stream2 = NoStream
    /\ markup \in SdtInputs
    /\ result = Err
    /\ failAt \in {0, MaxFail}
    /\ ids = FreshIds /\ threads = <<>>

\* quick_xml::de::from_str::<StructuredDataTag>
ReadStructuredDataTag ==
    Read("StructuredDataTag", Ok(StructuredDataTag_deserialize(Unwrap(markup))))

\* the entity that was read, written with build_to
WriteStructuredDataTag ==
    /\ phase = "StructuredDataTag"
    /\ result.ok
    /\ subject' = Some(result.val[1])
    /\ stream' = StructuredDataTag_build_to(NewStream(failAt), result.val[1])
    /\ phase' = "rewritten"
    /\ UNCHANGED <<sdt, cell, table, doc, calls, back, stream2, markup, result, failAt, ids, threads>>

NextSdt == ReadStructuredDataTag \/ WriteStructuredDataTag

SpecSdt == InitSdt /\ [][NextSdt]_vars

RECURSIVE MaxOf(_)
MaxOf(ns) ==
    IF ns = <<>> THEN 0
    ELSE IF Head(ns) >= MaxOf(Tail(ns)) THEN Head(ns) ELSE MaxOf(Tail(ns))

RECURSIVE XmlSdtDepth(_), XmlSdtAliases(_), EntitySdtDepth(_), EntitySdtAliases(_)
\* how deep structured data tags nest in markup
XmlSdtDepth(el) ==
    (IF el.tag = "w:sdt" THEN 1 ELSE 0)
      + MaxOf([i \in DOMAIN el.children |-> XmlSdtDepth(el.children[i])])
\* the aliases of the tags along the nesting, outermost first
XmlSdtAliases(el) ==
    LET pr == Child(el, {"w:sdtPr"})
        a == IF IsSome(pr) THEN Child(Unwrap(pr), {"w:alias"}) ELSE None
        inner == SelectSeq(Unwrap(Child(el, {"w:sdtContent"})).children,
                           LAMBDA e : e.tag = "w:sdt")
    IN <<IF IsSome(a) THEN Attr(Unwrap(a), {"w:val"}) ELSE None>>
         \o (IF inner = <<>> THEN <<>> ELSE XmlSdtAliases(inner[1]))
\* the same two measures on the entity
EntitySdtDepth(e) ==
    IF e.kind = "StructuredDataTag"
    THEN 1 + MaxOf([i \in DOMAIN e.children |-> EntitySdtDepth(e.children[i])])
    ELSE 0
EntitySdtAliases(e) ==
    LET inner == SelectSeq(e.children, LAMBDA c : c.kind = "StructuredDataTag")
    IN <<e.property.alias>> \o (IF inner = <<>> THEN <<>> ELSE EntitySdtAliases(inner[1]))

\* C17: structured data tags nested up to three deep read as entities nested
\* as deep, each keeping its own alias, and the entity is written back with
\* the same nesting depth and aliases.
C17_NestedSdtKept ==
    /\ phase \in {"StructuredDataTag", "rewritten"} =>
          /\ result.ok
          /\ EntitySdtDepth(result.val[1]) = XmlSdtDepth(Unwrap(markup))
          /\ EntitySdtAliases(result.val[1]) = XmlSdtAliases(Unwrap(markup))
    /\ (phase = "rewritten" /\ failAt = 0) =>
          /\ stream.status = "ok"
          /\ XmlSdtDepth(Unwrap(Tokenize(stream.out))) = XmlSdtDepth(Unwrap(markup))
          /\ XmlSdtAliases(Unwrap(Tokenize(stream.out))) = XmlSdtAliases(Unwrap(markup))

C17_Witness ==
    /\ phase = "rewritten"
    /\ failAt = 0
    /\ XmlSdtAliases(Unwrap(markup)) = <<Some("Outer"), Some("Middle"), Some("Inner")>>
    /\ EntitySdtAliases(result.val[1]) = <<Some("Outer"), Some("Middle"), Some("Inner")>>
    /\ XmlSdtDepth(Unwrap(Tokenize(stream.out))) = 3


-----------------------------------------------------------------------------
(* Concurrent documents: the state machine of SpecConc *)

\* the kinds of entity a thread builds, one after the other, and then writes
JobKinds == {"Hyperlink", "Anchor", "Insert", "Delete"}
Jobs == SeqsUpTo(JobKinds, MaxJob) \ {<<>>}
Threads == {1, 2}

DeletedRun == Run_add_text(Run_new, "Hello")

\* one construction step of a thread: the entity, and the counters afterwards
BuildOne(c, k) ==
    IF k = "Hyperlink" THEN Hyperlink_new(c, "http://example.com", "External")
    ELSE IF k = "Anchor" THEN Hyperlink_new(c, "anchor", "Anchor")
    ELSE IF k = "Insert" THEN [entity |-> Insert_new(DeletedRun), ids |-> c]
    ELSE [entity |-> Delete_add_run(Delete_new, DeletedRun), ids |-> c]

\* one write step of a thread, into the thread's own sink
WriteOne(b, c, e) ==
    IF e.kind = "Hyperlink" THEN Hyperlink_build_to(b, c, e)
    ELSE IF e.kind = "Insert" THEN Insert_build_to(b, c, e)
    ELSE Delete_build_to(b, c, e)

InitConc ==
    /\ sdt = StructuredDataTag_new
    /\ cell = TableCell_new
    /\ table = None
    /\ doc = Document_new
    /\ calls = 0
    /\ phase = "threads"
    /\ subject = None
    /\ stream = NoStream
    /\ back = Err
    /\ stream2 = NoStream
    /\ markup = None
    /\ result = Err
    /\ failAt = 0
    /\ ids = FreshIds
    /\ threads \in [Threads -> {[job |-> j, built |-> <<>>, written |-> 0,
                                 sink |-> NewStream(0)] : j \in Jobs}]

BuildStep(t) ==
    /\ phase = "threads"
    /\ Len(threads[t].built) < Len(threads[t].job)
    /\ LET r == BuildOne(ids, threads[t].job[Len(threads[t].built) + 1])
       IN /\ threads' = [threads EXCEPT ![t].built = Append(@, r.entity)]
          /\ ids' = r.ids
    /\ UNCHANGED <<sdt, cell, table, doc, calls, phase, subject, stream, back,
                   stream2, markup, result, failAt>>

WriteStep(t) ==
    /\ phase = "threads"
    /\ Len(threads[t].built) = Len(threads[t].job)
    /\ threads[t].written < Len(threads[t].built)
    /\ LET r == WriteOne(threads[t].sink, ids,
                         threads[t].built[threads[t].written + 1])
       IN /\ threads' = [threads EXCEPT ![t].written = @ + 1, ![t].sink = r.stream]
          /\ ids' = r.ids
    /\ UNCHANGED <<sdt, cell, table, doc, calls, phase, subject, stream, back,
                   stream2, markup, result, failAt>>

Build == \E t \in Threads : BuildStep(t)
WriteBuilt == \E t \in Threads : WriteStep(t)

NextConc == Build \/ WriteBuilt
SpecConc == InitConc /\ [][NextConc]_vars

RECURSIVE BuildAll(_, _), WriteAll(_, _, _)
\* what a thread builds and writes when no other thread runs
BuildAll(c, job) ==
    IF job = <<>> THEN [built |-> <<>>, ids |-> c]
    ELSE LET r == BuildOne(c, Head(job))
             rest == BuildAll(r.ids, Tail(job))
         IN [built |-> <<r.entity>> \o rest.built, ids |-> rest.ids]
WriteAll(b, c, built) ==
    IF built = <<>> THEN b
    ELSE LET r == WriteOne(b, c, Head(built))
         IN WriteAll(r.stream, r.ids, Tail(built))
Alone(job) ==
    LET r == BuildAll(FreshIds, job) IN WriteAll(NewStream(0), r.ids, r.built)

Finished(t) == threads[t].written = Len(threads[t].job)

\* C18: what a thread has written once it has finished - generated
\* identifiers included - is what it writes when it runs alone, whatever
\* the other thread built or wrote in between.
C18_IsolatedIdentifiers ==
    \A t \in DOMAIN threads :
        Finished(t) => threads[t].sink.out = Alone(threads[t].job).out


-----------------------------------------------------------------------------
(* Child order: the state machine of SpecOrder *)

\* a session either makes builder calls or reads one markup
RunKidsXml ==
    {Element("w:t", <<>>, <<TextNode("Hello")>>), Element("w:tab", <<>>, <<>>),
     Element("w:instrText", <<>>, <<TextNode("TOC")>>),
     Element("w:instrText", <<>>, <<>>), UnknownEl}
OrderInputs ==
    {Some(Element("w:document", <<>>, <<Element("w:body", <<>>, kids)>>)) :
        kids \in SeqsUpTo(ContainerKids, MaxKids)}
    \cup {Some(Element("w:r", <<>>, kids)) : kids \in SeqsUpTo(RunKidsXml, MaxKids)}

InitOrder ==
    /\ sdt = StructuredDataTag_new
    /\ cell = TableCell_new
    /\ table = None
    /\ doc = Document_new
    /\ calls = 0
    /\ subject = None
    /\ stream = NoStream
    /\ back = Err
    /\ stream2 = NoStream
    /\ result = Err
    /\ failAt = 0
    /\ ids = FreshIds /\ threads = <<>>
    /\ \/ phase = "build" /\ markup = None
       \/ phase = "input" /\ markup \in OrderInputs

ReadDocumentXml == phase = "input" /\ ReadDocument
ReadRunXml == phase = "input" /\ ReadRun

NextOrder == BuilderNext \/ ReadDocumentXml \/ ReadRunXml
SpecOrder == InitOrder /\ [][NextOrder]_vars

\* new is old, or old followed by one more element
Grew(old, new) ==
    \/ new = old
    \/ Len(new) = Len(old) + 1 /\ SubSeq(new, 1, Len(old)) = old

\* children are what from_xml keeps of nodes, in the order of nodes: there
\* is an increasing map from the children to the nodes they were read from
\* that leaves out only nodes from_xml drops
InMarkupOrder(children, nodes, from_xml(_)) ==
    \E f \in [DOMAIN children -> DOMAIN nodes] :
        /\ \A i, j \in DOMAIN children : i < j => f[i] < f[j]
        /\ \A i \in DOMAIN children : from_xml(nodes[f[i]]) = Some(children[i])
        /\ \A n \in DOMAIN nodes :
              (\A i \in DOMAIN children : f[i] # n) => from_xml(nodes[n]) = None

BodyNodes(el) ==
    IF IsSome(Child(el, {"body", "w:body"}))
    THEN Unwrap(Child(el, {"body", "w:body"})).children ELSE <<>>

\* a builder call leaves the earlier children where they are; a container
\* handed to a parent arrives as it was
AppendsOnly ==
    /\ Grew(doc.children, doc'.children)
    /\ sdt' = StructuredDataTag_new \/ Grew(sdt.children, sdt'.children)
    /\ cell' = TableCell_new \/ Grew(cell.children, cell'.children)
    /\ \/ table' = None
       \/ table = None /\ Unwrap(table').rows = <<TableRow_new(<<cell>>)>>
       \/ table # None /\ Grew(Unwrap(table).rows, Unwrap(table').rows)
    /\ (sdt' # sdt /\ sdt' = StructuredDataTag_new) =>
          \/ doc'.children = Append(doc.children, sdt)
          \/ cell'.children = Append(cell.children, sdt)
    /\ (table # None /\ table' = None) =>
          \/ doc'.children = Append(doc.children, Unwrap(table))
          \/ cell'.children = Append(cell.children, Unwrap(table))
          \/ sdt'.children = Append(sdt.children, Unwrap(table))

ReadInOrder ==
    /\ (phase = "Document" /\ result.ok) =>
          InMarkupOrder(result.val[1].children, BodyNodes(Unwrap(markup)),
                        document_child_from_xml)
    /\ (phase = "Run" /\ result.ok) =>
          InMarkupOrder(result.val[1].children,
                        Value(Unwrap(markup), {"rPr", "w:rPr"}), run_child_from_xml)

-----------------------------------------------------------------------------
(* The prolog declaration: the state machine of SpecProlog *)

PartKids ==
    {Paragraph_add_run(Paragraph_new, Run_add_text(Run_new, "Hello")),
     Table_new(<<TableRow_new(<<TableCell_new>>)>>),
     StructuredDataTag_add_run(StructuredDataTag_new, Run_add_tab(Run_new))}

RECURSIVE Header_add_all(_, _), Footer_add_all(_, _)
Header_add_all(h, kids) ==
    IF kids = <<>> THEN h
    ELSE Header_add_all(
            IF Head(kids).kind = "Paragraph" THEN Header_add_paragraph(h, Head(kids))
            ELSE IF Head(kids).kind = "Table" THEN Header_add_table(h, Head(kids))
            ELSE Header_add_structured_data_tag(h, Head(kids)),
            Tail(kids))
Footer_add_all(f, kids) ==
    IF kids = <<>> THEN f
    ELSE Footer_add_all(
            IF Head(kids).kind = "Paragraph" THEN Footer_add_paragraph(f, Head(kids))
            ELSE Footer_add_table(f, Head(kids)),
            Tail(kids))

Headers == {Header_add_all(Header_new, kids) : kids \in SeqsUpTo(PartKids, MaxParts)}
Footers ==
    {Footer_add_all(Footer_new, kids) :
        kids \in SeqsUpTo({k \in PartKids : k.kind # "StructuredDataTag"}, MaxParts)}
SettingsSet ==
    {Settings_new, Settings_zoom(Settings_new, 2),
     Settings_default_tab_stop(Settings_new, 0),
     Settings_even_and_odd_headers(Settings_new),
     Settings_adjust_line_height_in_table(Settings_new),
     Settings_character_spacing_control(
        Settings_even_and_odd_headers(Settings_new), "compressPunctuation")}
\* entities that are written inside a part
NestedEntities ==
    PartKids \cup WriteCells
    \cup {Paragraph_new, Run_new, Run_add_text(Run_new, "Hello"),
          TableRow_new(<<TableCell_new>>), BookmarkStart_new(1, "bm"),
          BookmarkEnd_new(1), SectionProperty_new,
          SectionProperty_first_header(SectionProperty_new, "rId1")}
    \cup {[kind |-> "Zoom", val |-> 100], [kind |-> "DefaultTabStop", val |-> 840]}

InitProlog ==
    /\ sdt = StructuredDataTag_new
    /\ cell = TableCell_new
    /\ table = None
    /\ doc \in WriteDocs
    /\ calls = 0
    /\ phase = "build"
    /\ subject = None
    /\ stream = NoStream
    /\ back = Err
    /\ stream2 = NoStream
    /\ markup = None
    /\ result = Err
    /\ failAt \in 0..MaxFail
    /\ ids = FreshIds /\ threads = <<>>

WritePart(e, s) ==
    /\ phase = "build"
    /\ subject' = Some(e)
    /\ stream' = s
    /\ phase' = "written"
    /\ UNCHANGED <<sdt, cell, table, doc, calls, back, stream2, markup, result,
                   failAt, ids, threads>>

WriteHeader == \E h \in Headers : WritePart(h, Header_build_to(NewStream(failAt), h))
WriteFooter == \E f \in Footers : WritePart(f, Footer_build_to(NewStream(failAt), f))
WriteSettings ==
    \E st \in SettingsSet : WritePart(st, Settings_build_to(NewStream(failAt), st))
\* add_child of an entity that is no part of its own
WriteNested ==
    \E e \in NestedEntities :
        WritePart(e, IF e.kind = "Zoom" THEN Zoom_build_to(NewStream(failAt), e.val)
                   ELSE IF e.kind = "DefaultTabStop"
                   THEN DefaultTabStop_build_to(NewStream(failAt), e.val)
                   ELSE add_child(NewStream(failAt), e))

NextProlog ==
    WriteDocument \/ WriteHeader \/ WriteFooter \/ WriteSettings \/ WriteNested
SpecProlog == InitProlog /\ [][NextProlog]_vars

Declarations(out) == {i \in DOMAIN out : out[i] = DeclEv}
IsPart(e) == e.kind \in {"Document", "Header", "Footer", "Settings"}

\* C20: the output of a document, header, footer or settings writer starts
\* with the declaration and has no other one; the output of any other
\* writer has none.
C20_DeclarationOnlyAtPartStart ==
    phase = "written" =>
        IF IsPart(Unwrap(subject))
        THEN /\ stream.status = "ok" => stream.out # <<>>
             /\ stream.out # <<>> => Declarations(stream.out) = {1}
        ELSE Declarations(stream.out) = {}

C20_Witness ==
    /\ phase = "written"
    /\ Unwrap(subject).kind = "Header"
    /\ Len(Unwrap(subject).children) = MaxParts
    /\ stream.status = "ok"
    /\ Declarations(stream.out) = {1}
    /\ Len(stream.out) > 3

-----------------------------------------------------------------------------
(* The generic node tree of xml_json *)

\* a session that only reads or only writes: every variable but the three
\* named ones is at rest
InitWith(ph, inputs, fails) ==
    /\ sdt = StructuredDataTag_new
    /\ cell = TableCell_new
    /\ table = None
    /\ doc = Document_new
    /\ calls = 0
    /\ phase = ph
    /\ subject = None
    /\ stream = NoStream
    /\ back = Err
    /\ stream2 = NoStream
    /\ markup \in inputs
    /\ result = Err
    /\ failAt \in fails
    /\ ids = FreshIds /\ threads = <<>>

\* quick_xml::escape::unescape, one character reference per character
unescape(cs) ==
    [i \in DOMAIN cs |-> IF cs[i] = "&amp;" THEN "&"
                         ELSE IF cs[i] = "&lt;" THEN "<" ELSE cs[i]]
\* the markup form of a character
escape(cs) ==
    [i \in DOMAIN cs |-> IF cs[i] = "&" THEN "&amp;"
                         ELSE IF cs[i] = "<" THEN "&lt;" ELSE cs[i]]

XmlData(name, attributes) ==
    [name |-> name, attributes |-> attributes, data |-> None, children |-> <<>>]

\* the name and the attributes of a start tag, the values unescaped
read_element(e) ==
    [name |-> e.name,
     attributes |-> [i \in DOMAIN e.attributes |->
                        <<e.attributes[i][1], unescape(e.attributes[i][2])>>]]

\* parent.children.push(node), or root_items.push(node) on an empty stack
push_node(st, node) ==
    IF st.stack # <<>>
    THEN [st EXCEPT !.stack[Len(st.stack)].children = Append(@, node)]
    ELSE [st EXCEPT !.root_items = Append(@, node)]

\* current.data = Some(text); text outside every element is dropped
set_data(st, txt, trim) ==
    IF st.stack # <<>>
    THEN [st EXCEPT !.stack[Len(st.stack)].data = Some(IF trim THEN Trim(txt) ELSE txt)]
    ELSE st

\* Event::End: the popped node must carry the name of the end tag
end_element(st, e) ==
    IF st.stack = <<>> THEN [st EXCEPT !.failed = TRUE]
    ELSE IF st.stack[Len(st.stack)].name # e.name THEN [st EXCEPT !.failed = TRUE]
    ELSE push_node([st EXCEPT !.stack = SubSeq(@, 1, Len(@) - 1)],
                   st.stack[Len(st.stack)])

\* one turn of the loop over the events
read_event(st, e, trim) ==
    IF e.ev = "Start"
    THEN [st EXCEPT !.stack = Append(@, XmlData(read_element(e).name,
                                                 read_element(e).attributes))]
    ELSE IF e.ev = "End" THEN end_element(st, e)
    ELSE IF e.ev = "Empty"
    THEN push_node(st, XmlData(read_element(e).name, read_element(e).attributes))
    ELSE IF e.ev = "Text" THEN set_data(st, unescape(e.text), trim)
    ELSE IF e.ev = "CData" THEN set_data(st, e.text, trim)
    ELSE st

RECURSIVE read_events(_, _, _)
read_events(st, events, trim) ==
    IF st.failed \/ events = <<>> THEN st
    ELSE read_events(read_event(st, Head(events), trim), Tail(events), trim)

\* the stack must be empty at the end of the input
finish(st) == IF st.failed \/ st.stack # <<>> THEN Err ELSE Ok([data |-> st.root_items])

XmlDocument_from_reader(events, trim) ==
    finish(read_events([stack |-> <<>>, root_items |-> <<>>, failed |-> FALSE],
                       events, trim))

\* FromStr for XmlDocument
XmlDocument_from_str(events) == XmlDocument_from_reader(events, TRUE)

\* well-formed input: an element with its attributes and its content in
\* order, a content item being an element or a text fragment
XmlElement(name, attributes, content, empty) ==
    [item |-> "element", name |-> name, attributes |-> attributes,
     content |-> content, empty |-> empty]
XmlText(chars, cdata) == [item |-> "text", chars |-> chars, cdata |-> cdata]

\* the events quick_xml reads from the markup of the input
RECURSIVE EventsOf(_), EventsOfAll(_)
EventsOf(x) ==
    IF x.item = "text"
    THEN IF x.cdata THEN <<[ev |-> "CData", text |-> x.chars]>>
         ELSE <<[ev |-> "Text", text |-> escape(x.chars)]>>
    ELSE LET attrs == [i \in DOMAIN x.attributes |->
                          <<x.attributes[i][1], escape(x.attributes[i][2])>>]
         IN IF x.empty
            THEN <<[ev |-> "Empty", name |-> x.name, attributes |-> attrs]>>
            ELSE <<[ev |-> "Start", name |-> x.name, attributes |-> attrs]>>
                 \o EventsOfAll(x.content) \o <<[ev |-> "End", name |-> x.name]>>
EventsOfAll(xs) ==
    IF xs = <<>> THEN <<>> ELSE EventsOf(Head(xs)) \o EventsOfAll(Tail(xs))

XmlTexts == {XmlText(<<"x">>, FALSE), XmlText(<<"y", "&">>, FALSE), XmlText(<<"<">>, TRUE)}
XmlLeaves ==
    {XmlElement("b", <<>>, <<>>, TRUE),
     XmlElement("b", <<<<"k", <<"v", "&">>>>, <<"l", <<"w">>>>>>, <<>>, TRUE),
     XmlElement("c", <<>>, <<>>, FALSE)}
\* the parser reads adjacent character data as one fragment
Separate(c) ==
    \A i \in 1..(Len(c) - 1) :
        ~(c[i].item = "text" /\ c[i + 1].item = "text" /\ ~c[i].cdata /\ ~c[i + 1].cdata)
XmlInner ==
    {XmlElement("a", <<>>, c, FALSE) :
        c \in {d \in SeqsUpTo(XmlLeaves \cup XmlTexts, MaxKids) : Separate(d)}}
XmlInputs ==
    {Some(x) : x \in XmlInner}
    \cup {Some(XmlElement("r", <<<<"k", <<"v">>>>>>, <<x>>, FALSE)) :
            x \in {y \in XmlInner : Len(y.content) <= 2}}

InitXml == InitWith("input", XmlInputs, {0})

Projected(r, ph) ==
    /\ phase = "input"
    /\ result' = r
    /\ phase' = ph
    /\ UNCHANGED <<sdt, cell, table, doc, calls, subject, stream, back, stream2,
                   markup, failAt, ids, threads>>

FromReader == Projected(XmlDocument_from_reader(EventsOf(Unwrap(markup)), FALSE), "from_reader")
FromStr == Projected(XmlDocument_from_str(EventsOf(Unwrap(markup))), "from_str")

NextXml == FromReader \/ FromStr
SpecXml == InitXml /\ [][NextXml]_vars

ElementsIn(content) == SelectSeq(content, LAMBDA x : x.item = "element")
FragmentsIn(content) == SelectSeq(content, LAMBDA x : x.item = "text")

\* the node is the element: its name, its attributes, its text fragments in
\* order and its child elements in order
RECURSIVE Projects(_, _, _)
Projects(node, x, trim) ==
    /\ node.name = x.name
    /\ node.attributes = x.attributes
    /\ LET texts == FragmentsIn(x.content)
       IN [i \in DOMAIN node.data |-> node.data[i]]
            = [i \in DOMAIN texts |-> IF trim THEN Trim(texts[i].chars) ELSE texts[i].chars]
    /\ LET kids == ElementsIn(x.content)
       IN /\ Len(node.children) = Len(kids)
          /\ \A i \in DOMAIN kids : Projects(node.children[i], kids[i], trim)

\* C21: for well-formed input the projection succeeds and its node tree has
\* every element, every attribute and every text fragment of the input,
\* nested and ordered as in the input.
C21_LosslessProjection ==
    phase \in {"from_reader", "from_str"} =>
        /\ result.ok
        /\ Len(result.val[1].data) = 1
        /\ Projects(result.val[1].data[1], Unwrap(markup), phase = "from_str")

-----------------------------------------------------------------------------
(* SpecFlag: the boolean-flag elements *)

FlagValues == {None, Some(<<"1">>), Some(<<"t", "r", "u", "e">>), Some(<<"0">>),
               Some(<<"f", "a", "l", "s", "e">>)}
FlagEl(tag, v) ==
    Element(tag, IF IsSome(v) THEN <<<<"w:val", Unwrap(v)>>>> ELSE <<>>, <<>>)
RunFlagTags == {"w:b", "w:i", "w:strike", "w:vanish", "w:specVanish"}
RunFlagEls == {FlagEl(tag, v) : tag \in RunFlagTags, v \in FlagValues}
\* one or two flag elements, no tag twice
RunFlagKids ==
    {ks \in SeqsUpTo(RunFlagEls, 2) : ks # <<>> /\ (Len(ks) = 2 => ks[1].tag # ks[2].tag)}
LevelWith(kid) ==
    Element("w:abstractNum", <<<<"w:abstractNumId", <<"0">>>>>>,
            <<Element("w:lvl", <<<<"w:ilvl", <<"0">>>>>>, <<kid>>)>>)
FlagInputs ==
    {Some(Element("w:r", <<>>, <<Element("w:rPr", <<>>, ks)>>)) : ks \in RunFlagKids}
    \cup {Some(Element("w:sectPr", <<>>, <<FlagEl("w:titlePg", v)>>)) : v \in FlagValues}
    \cup {Some(LevelWith(FlagEl("w:isLgl", v))) : v \in FlagValues}
    \cup {Some(LevelWith(Element("w:pPr", <<>>, <<FlagEl("w:keepNext", v)>>))) :
            v \in FlagValues}

InitFlag == InitWith("input", FlagInputs, {0})
NextFlag == ReadRun \/ ReadSectionProperty \/ ReadAbstractNumbering
SpecFlag == InitFlag /\ [][NextFlag]_vars

\* the flag elements of the markup that was read
RECURSIVE FlagElsIn(_)
FlagElsIn(el) ==
    (IF el.tag \in RunFlagTags \cup {"w:titlePg", "w:isLgl", "w:keepNext"}
     THEN {el} ELSE {})
    \cup UNION {FlagElsIn(el.children[i]) : i \in DOMAIN el.children}

\* the value the rule gives a flag element that is present
FlagRule(el) ==
    ~(el.attrs # <<>> /\ el.attrs[1][2] \in {<<"0">>, <<"f", "a", "l", "s", "e">>})

RunFlagField(tag) ==
    IF tag = "w:b" THEN "bold" ELSE IF tag = "w:i" THEN "italic"
    ELSE IF tag = "w:strike" THEN "strike"
    ELSE IF tag = "w:vanish" THEN "vanish" ELSE "spec_vanish"

\* the flag as the entity that was read holds it
FlagRead(tag) ==
    IF tag = "w:titlePg" THEN result.val[1].title_pg
    ELSE IF tag = "w:isLgl" THEN result.val[1].levels[1].is_lgl
    ELSE IF tag = "w:keepNext"
    THEN result.val[1].levels[1].paragraph_property.keep_next = Some(TRUE)
    ELSE result.val[1].run_property[RunFlagField(tag)] = Some(TRUE)

\* C22: a boolean-flag element that is present is read as true when it has
\* no value or the value 1 or true, and as false when it has the value 0 or
\* false.
C22_FlagValueRule ==
    (phase \in {"Run", "SectionProperty", "AbstractNumbering"} /\ result.ok) =>
        \A el \in FlagElsIn(Unwrap(markup)) : FlagRead(el.tag) = FlagRule(el)

-----------------------------------------------------------------------------
(* SpecSettings: the settings part, read and written *)

ZoomValues == {<<"1", "2", "0">>, <<"9", "0">>, <<"1", "2", "0", ".", "5">>, <<"a", "b", "c">>}
TabStopValues == {<<"7", "2", "0">>, <<"1", "2", ".", "7">>, <<"a", "b", "c">>, <<"+", "5">>}
RawAttr(name, v) == IF IsSome(v) THEN <<<<name, Unwrap(v)>>>> ELSE <<>>
Optional(values) == {None} \cup {Some(v) : v \in values}
\* a zoom element with one attribute or both, in either order
ZoomEls ==
    {Element("w:zoom", RawAttr("w:percent", p) \o RawAttr("w:val", v), <<>>) :
        p \in Optional(ZoomValues), v \in Optional(ZoomValues)}
    \cup {Element("w:zoom", <<<<"w:val", v>>, <<"w:percent", p>>>>, <<>>) :
            p \in {<<"1", "2", "0">>}, v \in {<<"9", "0">>}}
TabStopEls ==
    {Element("w:defaultTabStop", RawAttr("w:val", v), <<>>) : v \in Optional(TabStopValues)}
SettingsInputsXml ==
    {Element("w:settings", <<>>, <<z>>) : z \in ZoomEls}
    \cup {Element("w:settings", <<>>, <<t, z>>) :
            t \in TabStopEls, z \in {y \in ZoomEls : Len(y.attrs) = 1}}

\* the settings the builder makes (the writers of identifiers and variables
\* are not part of the model, so these two fields stay empty)
BuiltTabStops == {840, 0, 720}
WithTabStop(st, n) == IF n = 840 THEN st ELSE Settings_default_tab_stop(st, n)
WithEvenAndOdd(st, on) == IF on THEN Settings_even_and_odd_headers(st) ELSE st
WithAdjust(st, on) == IF on THEN Settings_adjust_line_height_in_table(st) ELSE st
WithSpacing(st, v) == IF IsSome(v) THEN Settings_character_spacing_control(st, Unwrap(v)) ELSE st
BuiltSettings ==
    {WithSpacing(WithAdjust(WithEvenAndOdd(WithTabStop(Settings_new, n), eo), adj), csc) :
        n \in BuiltTabStops, eo \in BOOLEAN, adj \in BOOLEAN,
        csc \in Optional(CharacterSpacingValues)}

InitSettings ==
    InitWith("input", {None} \cup {Some(el) : el \in SettingsInputsXml \cup ZoomEls}, {0})

\* quick_xml::de::from_str::<Settings>
ReadSettingsXml ==
    /\ markup # None
    /\ Unwrap(markup).tag = "w:settings"
    /\ ReadSettings

\* quick_xml::de::from_str::<Zoom>
ReadZoom ==
    /\ markup # None
    /\ Unwrap(markup).tag = "w:zoom"
    /\ Read("Zoom", Zoom_deserialize(Unwrap(markup)))

\* Settings::build followed by from_str of what was written
SettingsRoundTrip ==
    /\ phase = "input"
    /\ markup = None
    /\ \E st \in BuiltSettings :
          /\ subject' = Some(st)
          /\ stream' = Settings_build_to(NewStream(0), st)
          /\ back' = Settings_from_xml_quick(Tokenize(Settings_build_to(NewStream(0), st).out))
    /\ phase' = "read back"
    /\ UNCHANGED <<sdt, cell, table, doc, calls, stream2, markup, result, failAt,
                   ids, threads>>

NextSettings == ReadSettingsXml \/ ReadZoom \/ SettingsRoundTrip
SpecSettings == InitSettings /\ [][NextSettings]_vars

\* the rule for a numeric attribute: an exact integer, else a float
\* truncated, else the default
NumericRule(raw, default) ==
    IF ~IsSome(raw) THEN default
    ELSE IF IsSome(parse_u32(Unwrap(raw))) THEN Unwrap(parse_u32(Unwrap(raw)))
    ELSE IF IsSome(parse_f64(Unwrap(raw))) THEN as_usize(Unwrap(parse_f64(Unwrap(raw))))
    ELSE default

ZoomOf(el) == Child(el, {"zoom", "w:zoom"})
TabStopOf(el) == Child(el, {"defaultTabStop", "w:defaultTabStop"})
\* the attribute of the zoom element that is looked at: percent before val
ZoomRaw(z) == or_else(Attr(z, {"percent", "w:percent"}), Attr(z, {"val", "w:val"}))

\* C23: the numeric attributes of the settings part (the zoom and the
\* default tab stop) are read as an exact integer, else as a float that is
\* truncated, else as absent so that the default applies.
C23_IntegerThenFloatThenDefault ==
    (phase = "Settings" /\ result.ok) =>
        /\ result.val[1].zoom = NumericRule(ZoomRaw(Unwrap(ZoomOf(Unwrap(markup)))), 100)
        /\ result.val[1].default_tab_stop =
              NumericRule(Val(TabStopOf(Unwrap(markup))), 840)


IsInteger(raw) == IsSome(raw) /\ IsSome(parse_u32(Unwrap(raw)))
\* the zoom element that was read, alone or as the child of a settings element
ZoomRead == IF phase = "Zoom" THEN Unwrap(markup) ELSE Unwrap(ZoomOf(Unwrap(markup)))
ZoomValueRead == IF phase = "Zoom" THEN result.val[1].val ELSE result.val[1].zoom
Percent(z) == Attr(z, {"percent", "w:percent"})

\* C27: a zoom element with a percent and a val attribute is read as the
\* percent value, and one with only a val attribute as the val value.
C27_PercentBeforeVal ==
    (phase = "Zoom" \/ (phase = "Settings" /\ IsSome(ZoomOf(Unwrap(markup))))) =>
        /\ (IsInteger(Percent(ZoomRead)) /\ IsInteger(Val(Some(ZoomRead))))
              => (result.ok /\ ZoomValueRead = Unwrap(parse_u32(Unwrap(Percent(ZoomRead)))))
        /\ (~IsSome(Percent(ZoomRead)) /\ IsInteger(Val(Some(ZoomRead))))
              => (result.ok /\ ZoomValueRead = Unwrap(parse_u32(Unwrap(Val(Some(ZoomRead))))))

\* C28: a Settings value built with the builder, written and read back, is
\* the value that was built.
C28_SettingsRoundTrip ==
    phase = "read back" => (back.ok /\ back.val[1] = Unwrap(subject))

-----------------------------------------------------------------------------
(* SpecDup: a section-property block that repeats a child *)

DistanceValues == {<<"2", "5", "4">>, <<"3", "0", "0">>, <<"1", "2", "p", "t">>}
SectionDupKids ==
    {Element("w:pgSz", <<<<"w:w", v>>>>, <<>>) : v \in DistanceValues}
    \cup {Element("w:pgMar", <<<<"w:top", v>>>>, <<>>) : v \in DistanceValues}
    \cup {Element("w:type", <<<<"w:val", v>>>>, <<>>) : v \in {"continuous", "oddPage"}}
    \cup {UnknownEl}
DupInputs ==
    {Some(Element("w:sectPr", <<>>, kids)) : kids \in SeqsUpTo(SectionDupKids, MaxKids)}

InitDup == InitWith("input", DupInputs, {0})
NextDup == ReadSectionProperty
SpecDup == InitDup /\ [][NextDup]_vars

\* the children of the block that was read which carry the tag, in order
Occurrences(tag) == SelectSeq(Unwrap(markup).children, LAMBDA e : e.tag = tag)
\* the block as it reads when el is its only child
ReadAlone(el) == section_property_child(SectionProperty_new, el)

\* C24: of several page size, page margin or section type children of a
\* section-property block, the first one is the one that is read.
C24_FirstOccurrenceWins ==
    phase = "SectionProperty" =>
        /\ Occurrences("w:pgSz") # <<>> =>
              result.val[1].page_size = ReadAlone(Occurrences("w:pgSz")[1]).page_size
        /\ Occurrences("w:pgMar") # <<>> =>
              result.val[1].page_margin = ReadAlone(Occurrences("w:pgMar")[1]).page_margin
        /\ Occurrences("w:type") # <<>> =>
              result.val[1].section_type = ReadAlone(Occurrences("w:type")[1]).section_type

-----------------------------------------------------------------------------
(* SpecId: the identifier an Insert or a Delete is written with *)

RevisionAttrs ==
    {id \o author : id \in {<<>>, <<<<"w:id", "7">>>>, <<<<"w:id", "9">>>>},
                    author \in {<<>>, <<<<"w:author", "a">>>>}}
IdInputs ==
    {None}
    \cup {Some(Element(tag, attrs, kids)) :
            tag \in {"w:del", "w:ins"}, attrs \in RevisionAttrs,
            kids \in SeqsUpTo({RunEl, UnknownEl}, MaxKids)}

InitId == InitWith("input", IdInputs, {0})

\* quick_xml::de::from_str::<Delete>
ReadDelete ==
    /\ markup # None
    /\ Unwrap(markup).tag = "w:del"
    /\ Read("Delete", Ok(Delete_deserialize(Unwrap(markup))))

\* quick_xml::de::from_str::<Insert>
ReadInsert ==
    /\ markup # None
    /\ Unwrap(markup).tag = "w:ins"
    /\ Read("Insert", Ok(Insert_deserialize(Unwrap(markup))))

\* the writer ran over the entity e: r is its sink and the counters afterwards
Wrote(e, r, ph) ==
    /\ subject' = Some(e)
    /\ stream' = r.stream
    /\ ids' = r.ids
    /\ phase' = ph
    /\ UNCHANGED <<sdt, cell, table, doc, back, stream2, markup, result, failAt, threads>>

\* build() of the entity that was read
WriteRead ==
    /\ phase \in {"Delete", "Insert"}
    /\ Wrote(result.val[1], WriteOne(NewStream(0), ids, result.val[1]), "written")
    /\ UNCHANGED calls

\* build() of an entity the builder made, any number of times in a row
WriteMade ==
    /\ markup = None
    /\ phase \in {"input", "made"}
    /\ calls < MaxJob
    /\ calls' = calls + 1
    /\ \E e \in {Delete_add_run(Delete_new, DeletedRun), Insert_new(DeletedRun)} :
          Wrote(e, WriteOne(NewStream(0), ids, e), "made")

NextId == ReadDelete \/ ReadInsert \/ WriteRead \/ WriteMade
SpecId == InitId /\ [][NextId]_vars

\* the identifier in the markup that was written, and the one the
\* generator gave out last
WrittenId == Unwrap(AttrOf(stream.out[1].attrs, {"w:id"}))
LastGenerated == ToString(ids.history - 1)
SuppliedId == IF markup = None THEN None ELSE Attr(Unwrap(markup), {"id", "w:id"})

\* C25: an Insert or Delete that was given an identifier (the id attribute
\* of the markup it was read from) is written with that identifier, and one
\* that was given none is written with the generated one.
C25_SuppliedIdIsWritten ==
    phase \in {"written", "made"} =>
        WrittenId = (IF IsSome(SuppliedId) THEN Unwrap(SuppliedId) ELSE LastGenerated)

-----------------------------------------------------------------------------
(* SpecNum: the numbering flag of what the reader makes *)

Numbered == Paragraph_numbering(Paragraph_new)
NumKids ==
    Built({Numbered, Paragraph_new,
           StructuredDataTag_add_paragraph(StructuredDataTag_new, Numbered),
           Table_new(<<TableRow_new(<<TableCell_add_paragraph(TableCell_new, Numbered)>>)>>)})
    \cup {UnknownEl}
\* a header, a document, a table cell and a structured tag around the children
Containers(kids) ==
    {Element("w:hdr", <<>>, kids), Element("w:tc", <<>>, kids),
     Element("w:document", <<>>, <<Element("w:body", <<>>, kids)>>),
     SdtXml(None, kids)}
ContainersOver(contents) == UNION {Containers(kids) : kids \in contents}
NumInputs == {Some(el) : el \in ContainersOver(SeqsUpTo(NumKids, MaxKids))}

InitNum == InitWith("input", NumInputs, {0})

\* quick_xml::de::from_str::<Header>
ReadHeader ==
    /\ Unwrap(markup).tag = "w:hdr"
    /\ Read("Header", Ok(Header_deserialize(Unwrap(markup))))
ReadDocumentPart == Unwrap(markup).tag = "w:document" /\ ReadDocument
ReadCell == Unwrap(markup).tag = "w:tc" /\ ReadTableCell
ReadSdt == Unwrap(markup).tag = "w:sdt" /\ ReadStructuredDataTag

NextNum == ReadHeader \/ ReadDocumentPart \/ ReadCell \/ ReadSdt
SpecNum == InitNum /\ [][NextNum]_vars

\* C26: the numbering flag of an entity the reader made is true exactly
\* when a paragraph in its subtree references a numbering definition.
C26_ReadFlagExact ==
    (phase \in {"Header", "Document", "TableCell", "StructuredDataTag"} /\ result.ok) =>
        (result.val[1].has_numbering <=> SubtreeHasNumbering(result.val[1]))


-----------------------------------------------------------------------------
(* SpecWritable: writing what the reader made of a run *)

\* a drawing that holds a text box and no picture
TextBoxDrawingEl ==
    Element("w:drawing", <<>>,
        <<Element("wp:inline", <<>>,
            <<Element("a:graphic", <<>>,
                <<Element("a:graphicData", <<>>,
                    <<Element("wps:wsp", <<>>,
                        <<Element("wps:txbx", <<>>,
                            <<Element("w:txbxContent", <<>>, <<>>)>>)>>)>>)>>)>>)>>)
\* the children of the runs the picture builders write
PicDrawingEls ==
    {r.children[2] :
        r \in Built({Run_add_image(Run_new, Pic_new),
                     Run_add_image(Run_new, Pic_overlapping(Pic_floating(Pic_new)))})}
WritableKids ==
    {Element("w:t", <<>>, <<TextNode("Hello")>>),
     Element("w:tab", <<>>, <<>>),
     Element("w:instrText", <<>>, <<TextNode("PAGE")>>),
     Element("w:instrText", <<>>, <<>>),
     TextBoxDrawingEl,
     Element("w:drawing", <<>>, <<>>),
     Element("w:pict", <<>>, <<>>)}
    \cup PicDrawingEls
RunsOf(contents) == {Element("w:r", <<>>, kids) : kids \in contents}
WritableInputs ==
    RunsOf(SeqsUpTo(WritableKids, 2))
    \cup {Element("w:document", <<>>,
            <<Element("w:body", <<>>, <<Element("w:p", <<>>, <<run>>)>>)>>) :
          run \in RunsOf(SeqsUpTo(WritableKids, 1))}

InitWritable == InitWith("input", {Some(el) : el \in WritableInputs}, {0})

\* build() of the model that was read
WriteBack ==
    /\ phase \in {"Run", "Document"}
    /\ result.ok
    /\ Wrote(result.val[1], [stream |-> build(result.val[1]), ids |-> ids], "written")
    /\ UNCHANGED calls

NextWritable == ReadRun \/ ReadDocumentPart \/ WriteBack
SpecWritable == InitWritable /\ [][NextWritable]_vars

\* C29: writing a model the reader produced never reaches a writer branch
\* that is unimplemented or marked unreachable.
C29_ReadModelIsWritable == phase = "written" => stream.status # "panic"


-----------------------------------------------------------------------------
(* SpecRun: a run under construction *)

InitRun == InitWith("run", {None}, {0})

\* Run::new()
RunNew ==
    /\ phase = "run"
    /\ subject = None
    /\ subject' = Some(Run_new)
    /\ UNCHANGED <<sdt, cell, table, doc, calls, phase, stream, back, stream2, markup,
                   result, failAt, ids, threads>>

\* one builder call on the run: r is the run the call returns
OnRun(r) ==
    /\ phase = "run"
    /\ subject # None
    /\ calls < MaxCalls
    /\ calls' = calls + 1
    /\ subject' = Some(r)
    /\ UNCHANGED <<sdt, cell, table, doc, phase, stream, back, stream2, markup,
                   result, failAt, ids, threads>>

RunAddText == \E t \in {"Hello", "World"} : OnRun(Run_add_text(Unwrap(subject), t))
RunAddTab == OnRun(Run_add_tab(Unwrap(subject)))
RunAddImage == OnRun(Run_add_image(Unwrap(subject), Pic_new))
RunAddFootnoteReference ==
    \E id \in 1..MaxNum : OnRun(Run_add_footnote_reference(Unwrap(subject), id))
RunBold == OnRun(Run_bold(Unwrap(subject)))
RunStyle == \E id \in {"Title", "FootnoteReference"} : OnRun(Run_style(Unwrap(subject), id))

NextRun ==
    RunNew \/ RunAddText \/ RunAddTab \/ RunAddImage \/ RunAddFootnoteReference
        \/ RunBold \/ RunStyle
SpecRun == InitRun /\ [][NextRun]_vars

\* the step is a builder call that added a child to the run
AddsChild ==
    /\ subject # None /\ subject' # None
    /\ Len(Unwrap(subject').children) = Len(Unwrap(subject).children) + 1

\* C30: a builder call that adds a child to a run leaves the run's
\* formatting properties and all previously added children unchanged.
C30_AddChildFrame ==
    [][AddsChild =>
        /\ Unwrap(subject').run_property = Unwrap(subject).run_property
        /\ SubSeq(Unwrap(subject').children, 1, Len(Unwrap(subject).children))
              = Unwrap(subject).children]_vars

=============================================================================
